---- MODULE Spec2Model ----
(***************************************************************************)
(* CDP gateway and session multiplexer of the Magi browser orchestrator:   *)
(* CdpSessionManager (per-page debugger sessions), CdpGateway (browser     *)
(* scope Target.* state machine, broadcasts) and BrowserFleetManager /     *)
(* ManagedBrowser (ordered pages of each browser).                         *)
(*                                                                         *)
(* The Node event loop is modelled as it schedules the code: a handler     *)
(* runs to its next await as one step, promise continuations wait in a     *)
(* FIFO microtask queue that is drained before the next macrotask          *)
(* (WebSocket message, timer, WebContents or debugger event).              *)
(***************************************************************************)
EXTENDS Integers, Sequences, FiniteSets, TLC

\* ---- bounds of the model
MaxClock == 1
MaxPages == 3
MaxTasks == 2
MaxCmds == 2
MaxEvents == 1
MaxFleetOps == 3
MaxDetach == 1
MaxMsgs == 3

Conns == {"c1", "c2"}
Browsers == {"b1", "b2"}
CmdIds == {1}

VARIABLES
  browsers,   \* BrowserFleetManager.browsers / ManagedBrowser.pages, activePageId
  nextPage,   \* next fresh pageId (randomUUID)
  loading,    \* pages whose webContents.isLoading()
  dbg,        \* Electron debugger of each page: attached, listeners
  sessions,   \* CdpSessionManager.sessions
  inflight,   \* commands awaiting debugger.sendCommand
  stale,      \* in-flight commands whose session object left the map
  clients,    \* CdpGateway.clients
  conn,       \* WebSocketClient objects (ws.readyState and fields)
  tasks,      \* async gateway handlers suspended at an await
  loadWaiters,\* once('did-finish-load'/'did-fail-load') listeners, in order
  microq,     \* promise continuations ready to run (FIFO)
  clock,      \* Date.now()
  out,        \* frames written to each connection's WebSocket, in order
  cmds,       \* commands sent by clients to sessions (observation)
  events,     \* page of each debugger event emitted so far (observation)
  nFleetOps,  \* page creations / closes so far (bound)
  mutations   \* pages upserted into / removed from the store so far (observation)

vars == <<browsers, nextPage, loading, dbg, sessions, inflight, stale, clients,
          conn, tasks, loadWaiters, microq, clock, out, cmds, events, nFleetOps,
          mutations>>

fleetVars == <<browsers, nextPage, nFleetOps, mutations>>
muxVars == <<dbg, sessions, inflight, stale>>
taskVars == <<tasks, loadWaiters, microq>>

\* ---- small helpers on maps and sequences
EmptyMap == [x \in {} |-> 0]
Put(m, k, v) == [x \in (DOMAIN m) \cup {k} |-> IF x = k THEN v ELSE m[x]]
Remove(m, k) == [x \in (DOMAIN m) \ {k} |-> m[x]]
Range(s) == {s[i] : i \in DOMAIN s}
SeqAdd(s, x) == IF x \in Range(s) THEN s ELSE Append(s, x)
SeqRemove(s, x) == SelectSeq(s, LAMBDA y : y # x)
Count(s, Test(_)) == Cardinality({i \in DOMAIN s : Test(s[i])})

PageIds == 1..MaxPages
\* the pageIds handed out so far: a pageId is a randomUUID (ManagedBrowser
\* createPage), so a caller can name a page that exists, one that is gone or
\* one of another browser, never one that is yet to be created
KnownPageIds == 1..(nextPage - 1)
NoPage == 0
NoSid == <<0, 0, "none">>

\* `${targetId}-session-${Date.now()}`
SessionId(targetId, now) == <<targetId, now, "session">>
\* sessionId.split('-session-')[0]
TargetOfSession(sessionId) == sessionId[1]

\* ---- frames written to a WebSocket
Frame(t, sid, page, id, cmd) == [t |-> t, sid |-> sid, page |-> page, id |-> id, cmd |-> cmd]
AttachResponse(sid) == Frame("attachResponse", sid, TargetOfSession(sid), 0, 0)
AttachedToTarget(sid, page) == Frame("attachedToTarget", sid, page, 0, 0)
DetachedFromTarget(sid, page) == Frame("detachedFromTarget", sid, page, 0, 0)
TargetCreated(page) == Frame("targetCreated", NoSid, page, 0, 0)
TargetDestroyed(page) == Frame("targetDestroyed", NoSid, page, 0, 0)
ErrorResponse(code) == Frame("error", NoSid, NoPage, code, 0)
\* {code: -32602, message: 'Missing targetId parameter'}
MissingTargetId == ErrorResponse(-32602)
\* a not-found error whose message does not name the target
TargetNotFoundUnnamed(targetId) == ErrorResponse(-32000)
\* {code: -32000, message: `Target not found: ${targetId}`}
TargetNotFound(targetId) == Frame("error", NoSid, targetId, -32000, 0)

\* sendResponse / sendEvent: written only while ws.readyState is OPEN
SendFrames(o, c, frames) ==
  IF conn[c].state = "open" THEN [o EXCEPT ![c] = @ \o frames] ELSE o

\* ---- fleet lookups
\* ManagedBrowser.getPage over every browser
PageExists(p) == \E b \in Browsers : p \in Range(browsers[b].pages)

\* ---- BrowserFleetStateStore and ManagedBrowser
\* A browser is the record of one ManagedBrowser (pages in Map order,
\* activePageId) together with its part of the store: the store's pages in
\* insertion order, the store's activePageId and the pages whose isActive
\* flag is set.
\* The store's statistics object of the browser is its pageCount; `held` is
\* the statistics object of the browser in the snapshot a caller retained:
\* whether it is still the object the store writes to (`shared`), its
\* pageCount now and its pageCount when the snapshot was taken (`was`).
NoSnapshot == [taken |-> FALSE, shared |-> FALSE, pageCount |-> 0, was |-> 0]

NoBrowser == [exists |-> FALSE, disposed |-> FALSE, pages |-> <<>>,
              activePageId |-> NoPage,
              storePages |-> <<>>, storeActive |-> NoPage, storeFlags |-> {},
              pageCount |-> 0, held |-> NoSnapshot,
              viewed |-> {}, blind |-> {}]

\* browser.statistics.pageCount = n: written into the statistics object the
\* store holds, which a snapshot may hold too
SetPageCount(br, n) ==
  [br EXCEPT !.pageCount = n,
             !.held = IF @.shared THEN [@ EXCEPT !.pageCount = n] ELSE @]

\* store.setBrowserStatistics: a new statistics object replaces the old one
SetBrowserStatistics(br, n) ==
  [br EXCEPT !.pageCount = n, !.held = [@ EXCEPT !.shared = FALSE]]

\* BrowserFleetManager.attachActiveView: the view of the store's active page
\* (of the first page when the store has none) is added to the window when
\* the browser has that page; `viewed` keeps the pages whose view was added
AttachActiveView(br) ==
  LET activePageId == IF br.storeActive # NoPage THEN br.storeActive
                      ELSE IF br.pages # <<>> THEN Head(br.pages) ELSE NoPage
  IN IF activePageId # NoPage /\ activePageId \in Range(br.pages)
     THEN [br EXCEPT !.viewed = @ \cup {activePageId}]
     ELSE br

\* page.navigate(url): `blind` keeps the pages whose navigation was started
\* before their view was ever added to the window
Navigate(br, p) == [br EXCEPT !.blind = @ \cup ({p} \ br.viewed)]

\* BrowserFleetManager.emitState: every browser of the fleet gets a new
\* statistics object with pageCount = pagesList.length
EmitState(B) ==
  [b \in DOMAIN B |-> IF B[b].exists THEN SetBrowserStatistics(B[b], Len(B[b].pages))
                      ELSE B[b]]

\* createManagedBrowser: no page, activePageId null
NewBrowser == [NoBrowser EXCEPT !.exists = TRUE]

\* the position of x in s, 0 when s has no x
IndexOf(s, x) ==
  IF x \in Range(s)
  THEN CHOOSE i \in DOMAIN s : s[i] = x /\ \A j \in 1..(i - 1) : s[j] # x
  ELSE 0

\* store.upsertPage: a new page goes to the end of the Map, a page whose
\* isActive flag is set becomes the browser's activePageId
StoreUpsertPage(br, p, isActive) ==
  SetPageCount([br EXCEPT !.storePages = SeqAdd(@, p),
                          !.storeFlags = IF isActive THEN @ \cup {p} ELSE @ \ {p},
                          !.storeActive = IF isActive THEN p ELSE @],
               Len(SeqAdd(br.storePages, p)))

\* store.removePage: the first remaining page of the store becomes active
\* when the active page goes
StoreRemovePage(br, p) ==
  IF p \notin Range(br.storePages) THEN br
  ELSE LET remainingPages == SeqRemove(br.storePages, p)
           newActive == IF remainingPages = <<>> THEN NoPage ELSE Head(remainingPages)
           counted == SetPageCount(br, Len(remainingPages))
       IN IF br.storeActive = p
          THEN [counted EXCEPT !.storePages = remainingPages,
                               !.storeActive = newActive,
                               !.storeFlags = (@ \ {p}) \cup (IF newActive = NoPage THEN {}
                                                              ELSE {newActive})]
          ELSE [counted EXCEPT !.storePages = remainingPages, !.storeFlags = @ \ {p}]

\* store.setActivePage: the flags of the browser's pages and activePageId
StoreSetActivePage(br, pageId) ==
  [br EXCEPT !.storeFlags = {pageId} \cap Range(br.storePages),
             !.storeActive = pageId]

\* ManagedPage.setActive -> updatePage: nothing for a page the store lost
PageSetActive(br, p, isActive) ==
  IF p \in Range(br.storePages) THEN StoreUpsertPage(br, p, isActive) ELSE br

\* a setActivePage that does not look the requested page up
SetActivePageUnchecked(br, pageId) ==
  StoreSetActivePage([br EXCEPT !.activePageId = pageId], pageId)

\* ManagedBrowser.setActivePage: the current page is deactivated before the
\* requested page is looked up
SetActivePage(br, pageId) ==
  IF pageId = br.activePageId THEN br
  ELSE LET cur == IF br.activePageId # NoPage /\ br.activePageId \in Range(br.pages)
                  THEN PageSetActive(br, br.activePageId, FALSE) ELSE br
       IN IF pageId # NoPage
          THEN IF pageId \notin Range(cur.pages) THEN cur
               ELSE StoreSetActivePage(
                      [PageSetActive(cur, pageId, TRUE) EXCEPT !.activePageId = pageId],
                      pageId)
          ELSE StoreSetActivePage([cur EXCEPT !.activePageId = NoPage], NoPage)

\* a createPage that puts every new page at the end
CreatePageAtEnd(br, p, isActive, afterPageId) ==
  LET made == [StoreUpsertPage(br, p, isActive) EXCEPT !.pages = Append(br.pages, p)]
  IN IF isActive THEN SetActivePage(made, p) ELSE made

\* ManagedBrowser.createPage: the page is upserted by its constructor, put
\* after `afterPageId` when the browser has it and at the end otherwise,
\* and made the active page when isActive
CreatePage(br, p, isActive, afterPageId) ==
  LET old == br.pages
      i == IndexOf(old, afterPageId)
      new == IF i > 0 THEN SubSeq(old, 1, i) \o <<p>> \o SubSeq(old, i + 1, Len(old))
             ELSE Append(old, p)
      made == [StoreUpsertPage(br, p, isActive) EXCEPT !.pages = new]
  IN IF isActive THEN SetActivePage(made, p) ELSE made

\* ManagedBrowser.removePage: the first remaining page becomes active when
\* the active page goes
RemovePage(br, p) ==
  IF p \notin Range(br.pages) THEN br
  ELSE LET left == SeqRemove(br.pages, p)
           shouldActivate == IF br.activePageId = p
                             THEN (IF left = <<>> THEN NoPage ELSE Head(left))
                             ELSE br.activePageId
       IN SetActivePage(StoreRemovePage([br EXCEPT !.pages = left,
                                                    !.viewed = @ \ {p},
                                                    !.blind = @ \ {p}], p),
                        shouldActivate)

\* buildListPayload over store.toJSON(): an entry for each browser and, for
\* each page of the store, an entry with its id, its browser and
\* attached = !isActive (the other fields of an entry are fixed when the
\* page or browser is made)
ListPayload(B) ==
  {[type |-> "browser", id |-> <<b, NoPage>>, attached |-> FALSE] :
     b \in {x \in Browsers : B[x].exists}}
  \cup UNION {{[type |-> "page", id |-> <<b, q>>, attached |-> q \notin B[b].storeFlags] :
               q \in Range(B[b].storePages)} : b \in {x \in Browsers : B[x].exists}}

\* ---- CdpSessionManager
NoSession == [exists |-> FALSE, clients |-> <<>>, clientsMap |-> EmptyMap,
              attached |-> FALSE, pendingMessages |-> EmptyMap]
NewSession == [NoSession EXCEPT !.exists = TRUE]

\* the send callback the gateway registers for a flattened session
FlatCallback(c, sid, page) == [conn |-> c, sid |-> sid, page |-> page, flat |-> TRUE]

\* the clientId `${targetId}-${Date.now()}` and the send callback of a
\* page-scope connection
PageClientId(targetId, now) == <<targetId, now, "client">>
PageCallback(c, sid, page) == [conn |-> c, sid |-> sid, page |-> page, flat |-> FALSE]

NoCallback == [conn |-> "none", sid |-> NoSid, page |-> NoPage, flat |-> FALSE]

\* handleClientMessage returns early without the session or the client
ClientFound(S, p, clientId) == S[p].exists /\ clientId \in DOMAIN S[p].clientsMap

\* attachClient up to the debugger attach: the session is created on demand
\* and the client registered before the debugger is looked at
RegisterClient(S, p, clientId, cb) ==
  LET s == IF S[p].exists THEN S[p] ELSE NewSession
  IN [S EXCEPT ![p] = [s EXCEPT !.clients = SeqAdd(@, clientId),
                                !.clientsMap = Put(@, clientId, cb)]]

\* detachClient: the entry goes only when no client is left and the
\* debugger is attached
DetachReleases(s) == Len(s.clients) = 0 /\ s.attached

DetachClientSessions(S, p, clientId) ==
  IF ~S[p].exists THEN S
  ELSE LET s == [S[p] EXCEPT !.clients = SeqRemove(@, clientId),
                             !.clientsMap = Remove(@, clientId)]
       IN IF DetachReleases(s) THEN [S EXCEPT ![p] = NoSession]
          ELSE [S EXCEPT ![p] = s]

DetachClientReleased(S, p, clientId) ==
  /\ S[p].exists
  /\ DetachReleases([S[p] EXCEPT !.clients = SeqRemove(@, clientId)])

\* debugger.detach() emits 'detach': the listeners are removed
DetachClientDbg(D, S, p, clientId) ==
  IF DetachClientReleased(S, p, clientId)
  THEN [D EXCEPT ![p] = [attached |-> FALSE, listeners |-> 0]]
  ELSE D

\* a WebSocket before its 'connection' event: the WebSocketClient fields and
\* the closure variables of the page-scope handler (messageBuffer,
\* sessionReady, whether ws.on('close') with the detach is registered);
\* `received` counts the messages the socket has delivered
NewClient ==
  [state |-> "new", browserId |-> "none", discoverTargets |-> FALSE,
   attachedTargets |-> {}, autoAttach |-> [enabled |-> FALSE, flatten |-> FALSE],
   pageId |-> NoPage, messageBuffer |-> <<>>, sessionReady |-> FALSE,
   closeHandler |-> FALSE, received |-> 0]

Init ==
  /\ browsers = [b \in Browsers |->
                   IF b = "b1"
                   THEN Navigate(AttachActiveView(CreatePage(NewBrowser, 1, TRUE, NoPage)), 1)
                   ELSE Navigate(AttachActiveView(CreatePage(NewBrowser, 2, TRUE, NoPage)), 2)]
  /\ nextPage = 3
  /\ loading = {}
  /\ dbg = [p \in PageIds |-> [attached |-> FALSE, listeners |-> 0]]
  /\ sessions = [p \in PageIds |-> NoSession]
  /\ inflight = {}
  /\ stale = {}
  /\ clients = {}
  /\ conn = [c \in Conns |-> NewClient]
  /\ tasks = <<>>
  /\ loadWaiters = <<>>
  /\ microq = <<>>
  /\ clock = 0
  /\ out = [c \in Conns |-> <<>>]
  /\ cmds = <<>>
  /\ events = <<>>
  /\ nFleetOps = 0
  /\ mutations = <<>>

\* a macrotask starts only when the microtask queue is drained
Idle == microq = <<>>

IsBrowserClient(c) ==
  conn[c].state = "open" /\ c \in clients /\ conn[c].browserId \in Browsers

\* ---- wss 'connection' for /devtools/browser/{id}
ConnectBrowser(c, b) ==
  /\ Idle
  /\ conn[c].state = "new"
  /\ conn' = [conn EXCEPT ![c].state = "open", ![c].browserId = b]
  /\ clients' = clients \cup {c}
  /\ UNCHANGED <<fleetVars, loading, muxVars, taskVars, clock, out, cmds, events>>

\* Date.now() advances
Tick ==
  /\ Idle
  /\ clock < MaxClock
  /\ clock' = clock + 1
  /\ UNCHANGED <<fleetVars, loading, muxVars, clients, conn, taskVars, out, cmds, events>>

CloseConnection(c) ==
  /\ Idle
  /\ conn[c].state = "open"
  /\ conn[c].browserId \in Browsers
  /\ conn' = [conn EXCEPT ![c].state = "closed"]
  /\ clients' = clients \ {c}
  /\ UNCHANGED <<fleetVars, loading, muxVars, taskVars, clock, out, cmds, events>>

\* ---- async handlers of the gateway
Task(kind, c, p, sid, pc, result) ==
  [kind |-> kind, conn |-> c, page |-> p, sid |-> sid, pc |-> pc, result |-> result,
   detached |-> FALSE, rest |-> <<>>, cmd |-> 0, todo |-> {}]

\* debugger.attach('1.3') throws while the debugger is already attached
AttachThrows(D, p) == D[p].attached

\* Target.attachToTarget
HandleAttachToTarget(c, p, flatten) ==
  /\ Idle
  /\ IsBrowserClient(c)
  /\ Len(tasks) < MaxTasks
  /\ IF p = NoPage
     THEN /\ out' = SendFrames(out, c, <<MissingTargetId>>)
          /\ tasks' = Append(tasks, Task("attach", c, p, NoSid, "done", "missing"))
          /\ UNCHANGED conn
     ELSE IF ~PageExists(p)
     THEN /\ out' = SendFrames(out, c, <<TargetNotFound(p)>>)
          /\ tasks' = Append(tasks, Task("attach", c, p, NoSid, "done", "notfound"))
          /\ UNCHANGED conn
     ELSE LET sid == SessionId(p, clock)
          IN /\ conn' = [conn EXCEPT ![c].attachedTargets = @ \cup {p}]
             /\ IF flatten
                THEN /\ out' = SendFrames(out, c, <<AttachResponse(sid)>>)
                     /\ tasks' = Append(tasks, Task("attach", c, p, sid, "timer", "pending"))
                ELSE /\ out' = SendFrames(out, c, <<AttachResponse(sid), AttachedToTarget(sid, p)>>)
                     /\ tasks' = Append(tasks, Task("attach", c, p, sid, "done", "unbound"))
  /\ UNCHANGED <<fleetVars, loading, muxVars, clients, loadWaiters, microq, clock, cmds, events>>

\* the 100 ms settle timer of an attach handler, or the 500 ms timer of the
\* page-scope connection handler, fires
TimerFired(t) ==
  /\ Idle
  /\ tasks[t].pc = "timer"
  /\ IF tasks[t].page \in loading
     THEN /\ tasks' = [tasks EXCEPT ![t].pc = "load"]
          /\ loadWaiters' = Append(loadWaiters, t)
          /\ UNCHANGED microq
     ELSE /\ tasks' = [tasks EXCEPT ![t].pc = IF tasks[t].kind = "page" THEN "afterLoad"
                                              ELSE "ready"]
          /\ microq' = <<t>>
          /\ UNCHANGED loadWaiters
  /\ UNCHANGED <<fleetVars, loading, muxVars, clients, conn, clock, out, cmds, events>>

\* where a handler continues after its wait for the load event:
\* handleAttachToTarget and handleCreateTarget call attachClient,
\* handleSetAutoAttach first awaits its 100 ms timer and the page-scope
\* connection handler its 200 ms timer
AfterLoad(task) == IF task.kind \in {"setAuto", "page"} THEN "afterLoad" ELSE "ready"

\* did-finish-load / did-fail-load: every waiting handler is resumed by
\* the same emit, in listener order
LoadEvent(p) ==
  /\ Idle
  /\ p \in loading
  /\ loading' = loading \ {p}
  /\ LET woken == SelectSeq(loadWaiters, LAMBDA t : tasks[t].page = p)
     IN /\ microq' = woken
        /\ loadWaiters' = SelectSeq(loadWaiters, LAMBDA t : tasks[t].page # p)
        /\ tasks' = [t \in DOMAIN tasks |->
                       IF t \in Range(woken) THEN [tasks[t] EXCEPT !.pc = AfterLoad(tasks[t])]
                       ELSE tasks[t]]
  /\ UNCHANGED <<fleetVars, muxVars, clients, conn, clock, out, cmds, events>>

\* a wait for the load event that no timer bounds
LoadTimeoutNever(t) == FALSE /\ UNCHANGED vars

\* the 2 s bound on the wait for the load event
LoadTimeout(t) ==
  /\ Idle
  /\ tasks[t].pc = "load"
  /\ tasks' = [tasks EXCEPT ![t].pc = AfterLoad(tasks[t])]
  /\ loadWaiters' = SeqRemove(loadWaiters, t)
  /\ microq' = <<t>>
  /\ UNCHANGED <<fleetVars, loading, muxVars, clients, conn, clock, out, cmds, events>>

\* a navigation starts in the page; isLoading() is read by a handler when
\* its settle timer fires and by handleSetAutoAttach when it is called, so
\* the start matters before a timer fires and while no handler is suspended
StartLoading(p) ==
  /\ Idle
  /\ PageExists(p)
  /\ p \notin loading
  /\ \/ \E t \in DOMAIN tasks : tasks[t].page = p /\ tasks[t].pc = "timer"
     \/ \A t \in DOMAIN tasks : tasks[t].pc = "done"
  /\ loading' = loading \cup {p}
  /\ UNCHANGED <<fleetVars, muxVars, clients, conn, taskVars, clock, out, cmds, events>>

\* attachClient, from its call to the await of debugger.attach
AttachClientCall(t) ==
  LET p == tasks[t].page
      sid == IF tasks[t].kind = "page" THEN PageClientId(p, clock) ELSE tasks[t].sid
      cb == IF tasks[t].kind = "page" THEN PageCallback(tasks[t].conn, sid, p)
            ELSE FlatCallback(tasks[t].conn, sid, p)
      S1 == RegisterClient(sessions, p, sid, cb)
  IN /\ tasks[t].pc = "ready"
     /\ sessions' = S1
     /\ IF ~S1[p].attached /\ PageExists(p)
        THEN IF AttachThrows(dbg, p)
             THEN /\ tasks' = [tasks EXCEPT ![t].pc = "done", ![t].result = "failed",
                                            ![t].sid = sid]
                  /\ microq' = Tail(microq)
                  /\ UNCHANGED dbg
             ELSE /\ dbg' = [dbg EXCEPT ![p].attached = TRUE]
                  /\ tasks' = [tasks EXCEPT ![t].pc = "attaching", ![t].sid = sid]
                  /\ microq' = Append(Tail(microq), t)
        ELSE /\ tasks' = [tasks EXCEPT ![t].pc = "resume", ![t].sid = sid]
             /\ microq' = Append(Tail(microq), t)
             /\ UNCHANGED dbg
     /\ UNCHANGED <<fleetVars, loading, inflight, stale, clients, conn, loadWaiters,
                    clock, out, cmds, events>>

\* attachClient after the await: attached flag, 'message' and 'detach' listeners
AttachClientResume(t) ==
  LET p == tasks[t].page
  IN /\ tasks[t].pc = "attaching"
     /\ sessions' = [sessions EXCEPT ![p].attached = TRUE]
     /\ dbg' = [dbg EXCEPT ![p].listeners = @ + 1]
     /\ tasks' = [tasks EXCEPT ![t].pc = "resume"]
     /\ microq' = Append(Tail(microq), t)
     /\ UNCHANGED <<fleetVars, loading, inflight, stale, clients, conn, loadWaiters,
                    clock, out, cmds, events>>

\* the loop of handleSetAutoAttach over browser.pagesList, run to its next
\* await: pages the client is attached to are skipped; without flatten the
\* event is sent at once, with flatten the handler suspends on the page
LoopResult(pc, page, sid, rest, att, frames) ==
  [pc |-> pc, page |-> page, sid |-> sid, rest |-> rest, att |-> att, frames |-> frames]

RECURSIVE AutoAttachLoop(_, _, _, _)
AutoAttachLoop(rest, att, frames, flatten) ==
  IF rest = <<>> THEN LoopResult("done", NoPage, NoSid, <<>>, att, frames)
  ELSE LET p == Head(rest)
           sid == SessionId(p, clock)
       IN IF p \in att THEN AutoAttachLoop(Tail(rest), att, frames, flatten)
          ELSE IF flatten
          THEN LoopResult(IF p \in loading THEN "load" ELSE "settle", p, sid, Tail(rest),
                          att \cup {p}, frames)
          ELSE AutoAttachLoop(Tail(rest), att \cup {p},
                              Append(frames, AttachedToTarget(sid, p)), flatten)

\* the handler after `await attachClient`: Target.attachedToTarget; the loop
\* of handleSetAutoAttach goes on to its next page
EmitAttached(t) ==
  LET c == tasks[t].conn
      attached == <<AttachedToTarget(tasks[t].sid, tasks[t].page)>>
      r == IF tasks[t].kind = "setAuto"
           THEN AutoAttachLoop(tasks[t].rest, conn[c].attachedTargets, attached, TRUE)
           ELSE LoopResult("done", NoPage, NoSid, <<>>, conn[c].attachedTargets, attached)
  IN /\ tasks[t].pc = "resume"
     /\ tasks[t].kind # "page"
     /\ out' = SendFrames(out, c, r.frames)
     /\ conn' = [conn EXCEPT ![c].attachedTargets = r.att]
     /\ tasks' = [tasks EXCEPT ![t] =
                    IF r.pc = "done" THEN [@ EXCEPT !.pc = "done", !.result = "ok"]
                    ELSE [@ EXCEPT !.pc = r.pc, !.page = r.page, !.sid = r.sid,
                                   !.rest = r.rest]]
     /\ loadWaiters' = IF r.pc = "load" THEN Append(loadWaiters, t) ELSE loadWaiters
     /\ microq' = Tail(microq)
     /\ UNCHANGED <<fleetVars, loading, muxVars, clients, clock, cmds, events>>

\* handleSetAutoAttach after its wait for the load event: the 100 ms timer
StartSettle(t) ==
  /\ tasks[t].pc = "afterLoad"
  /\ tasks' = [tasks EXCEPT ![t].pc = "settle"]
  /\ microq' = Tail(microq)
  /\ UNCHANGED <<fleetVars, loading, muxVars, clients, conn, loadWaiters, clock, out,
                 cmds, events>>

\* ---- page-scope connections (ws://.../devtools/page/{id})
\* handleClientMessage for a message of page-scope connection c, up to
\* `await debugger.sendCommand`: the sessions, the commands in flight and
\* the record of the command
PageForward(c, sid, id) ==
  LET p == conn[c].pageId
      n == Len(cmds) + 1
      found == ClientFound(sessions, p, sid)
      cmd == [conn |-> c, sid |-> sid, id |-> id, page |-> p, shape |-> "page",
              method |-> "Page.enable", bound |-> found,
              status |-> IF found THEN "inflight" ELSE "dropped",
              cb |-> IF found THEN sessions[p].clientsMap[sid] ELSE NoCallback,
              ok |-> TRUE]
  IN [sessions |-> IF found THEN [sessions EXCEPT ![p].pendingMessages = Put(@, id, sid)]
                   ELSE sessions,
      inflight |-> IF found THEN inflight \cup {n} ELSE inflight,
      cmds |-> Append(cmds, cmd),
      found |-> found]

\* the loop `for (const bufferedMsg of messageBuffer) await handleClientMessage`
\* run to its next await, and after the loop: the buffer is emptied and
\* ws.on('close') with the detach is registered
Drain(t, rest) ==
  LET c == tasks[t].conn
      f == PageForward(c, tasks[t].sid, Head(rest))
  IN IF rest = <<>>
     THEN /\ conn' = [conn EXCEPT ![c].sessionReady = TRUE, ![c].messageBuffer = <<>>,
                                  ![c].closeHandler = TRUE]
          /\ tasks' = [tasks EXCEPT ![t].pc = "done", ![t].result = "ok"]
          /\ microq' = Tail(microq)
          /\ UNCHANGED <<sessions, inflight, cmds>>
     ELSE /\ conn' = [conn EXCEPT ![c].sessionReady = TRUE]
          /\ sessions' = f.sessions
          /\ inflight' = f.inflight
          /\ cmds' = f.cmds
          /\ tasks' = [tasks EXCEPT ![t].pc = "drain", ![t].rest = Tail(rest),
                                    ![t].cmd = Len(cmds) + 1]
          /\ microq' = IF f.found THEN Tail(microq) ELSE Append(Tail(microq), t)

\* the page-scope handler after `await attachClient`: sessionReady = true
\* and the first turn of the drain loop
PageSessionReady(t) ==
  /\ tasks[t].pc = "resume"
  /\ tasks[t].kind = "page"
  /\ Drain(t, conn[tasks[t].conn].messageBuffer)
  /\ UNCHANGED <<fleetVars, loading, dbg, stale, clients, loadWaiters, clock, out, events>>

\* the drain loop after the handleClientMessage it awaited has returned
DrainBuffer(t) ==
  /\ tasks[t].pc = "drain"
  /\ Drain(t, tasks[t].rest)
  /\ UNCHANGED <<fleetVars, loading, dbg, stale, clients, loadWaiters, clock, out, events>>

RunMicrotask ==
  /\ microq # <<>>
  /\ LET t == Head(microq)
     IN \/ AttachClientCall(t)
        \/ AttachClientResume(t)
        \/ EmitAttached(t)
        \/ StartSettle(t)
        \/ PageSessionReady(t)
        \/ DrainBuffer(t)

\* every sessionId a client has been sent
KnownSids == {f.sid : f \in UNION {Range(out[c]) : c \in Conns}} \ {NoSid}

\* Target.detachFromTarget
HandleDetachFromTarget(c, sid) ==
  /\ Idle
  /\ IsBrowserClient(c)
  /\ sid \in KnownSids
  /\ conn[c].discoverTargets =>
       Count(out[c], LAMBDA f : f.t = "detachedFromTarget") < MaxDetach
  /\ LET p == TargetOfSession(sid)
     IN /\ sessions' = DetachClientSessions(sessions, p, sid)
        /\ dbg' = DetachClientDbg(dbg, sessions, p, sid)
        /\ stale' = IF DetachClientReleased(sessions, p, sid)
                    THEN stale \cup {n \in inflight : cmds[n].page = p}
                    ELSE stale
        /\ conn' = [conn EXCEPT ![c].attachedTargets = @ \ {p}]
        /\ out' = IF conn[c].discoverTargets
                  THEN SendFrames(out, c, <<DetachedFromTarget(sid, p)>>)
                  ELSE out
        /\ tasks' = [t \in DOMAIN tasks |->
                       IF tasks[t].sid = sid /\ tasks[t].pc = "done"
                       THEN [tasks[t] EXCEPT !.detached = TRUE] ELSE tasks[t]]
  /\ UNCHANGED <<fleetVars, loading, inflight, clients, loadWaiters, microq, clock, cmds, events>>

\* the debugger is detached from outside (DevTools opened, target crashed)
DebuggerDetached(p) ==
  /\ Idle
  /\ dbg[p].listeners > 0
  /\ dbg' = [dbg EXCEPT ![p] = [attached |-> FALSE, listeners |-> 0]]
  /\ sessions' = [sessions EXCEPT ![p].attached = FALSE]
  /\ UNCHANGED <<fleetVars, loading, inflight, stale, clients, conn, taskVars, clock,
                 out, cmds, events>>

\* another debugger (DevTools) takes a page no session is attached to:
\* debugger.attach('1.3') of that page throws from then on
DevToolsOpened(p) ==
  /\ Idle
  /\ PageExists(p)
  /\ ~dbg[p].attached
  /\ dbg' = [dbg EXCEPT ![p].attached = TRUE]
  /\ UNCHANGED <<fleetVars, loading, sessions, inflight, stale, clients, conn, taskVars,
                 clock, out, cmds, events>>

\* wss 'connection' for /devtools/page/{id}: the client is added to the
\* gateway's clients, the buffering 'message' handler is registered, a
\* missing page closes the socket, otherwise the handler awaits 500 ms
ConnectPage(c, p) ==
  /\ Idle
  /\ conn[c].state = "new"
  /\ Len(tasks) < MaxTasks
  /\ clients' = clients \cup {c}
  /\ IF PageExists(p)
     THEN /\ conn' = [conn EXCEPT ![c].state = "open", ![c].pageId = p]
          /\ tasks' = Append(tasks, Task("page", c, p, NoSid, "timer", "pending"))
     ELSE /\ conn' = [conn EXCEPT ![c].state = "closed", ![c].pageId = p]
          /\ tasks' = Append(tasks, Task("page", c, p, NoSid, "done", "notfound"))
  /\ UNCHANGED <<fleetVars, loading, muxVars, loadWaiters, microq, clock, out, cmds, events>>

\* ---- server 'upgrade' and wss 'connection'
\* a request path as url.pathname.split('/') sees it: "/root/type/id", with
\* type "none" when the path ends after the root; the third segment is
\* NoId when the path has none, else the browserId or the pageId it spells
Path(root, type, id) == [root |-> root, type |-> type, id |-> id]
NoId == <<"none", NoPage>>
BrowserSeg(b) == <<b, NoPage>>
PageSeg(p) == <<"none", p>>

Paths ==
  {Path("devtools", "browser", NoId), Path("devtools", "browser", BrowserSeg("b1")),
   Path("devtools", "browser", BrowserSeg("b2")), Path("devtools", "page", PageSeg(1)),
   Path("devtools", "page", NoId), Path("devtools", "other", BrowserSeg("b1")),
   Path("devtools", "none", NoId), Path("json", "list", NoId)}

\* url.pathname.startsWith('/devtools/')
StartsWithDevtools(path) == path.root = "devtools" /\ path.type # "none"

\* state.browsers[0]: the first browser of the store (b1 is made before b2)
FirstBrowser ==
  IF browsers["b1"].exists THEN BrowserSeg("b1")
  ELSE IF browsers["b2"].exists THEN BrowserSeg("b2") ELSE NoId

\* the 'upgrade' handler and, for a path it hands to handleUpgrade, the
\* 'connection' handler up to its first await: another path has its socket
\* destroyed; a connection that is neither a page one with an id nor a
\* browser one with a browserId is added to the clients and closed
UpgradeRequest(c, path) ==
  LET effectiveBrowserId == IF path.type = "browser" /\ path.id = NoId THEN FirstBrowser
                            ELSE path.id
  IN IF ~StartsWithDevtools(path)
     THEN /\ Idle
          /\ conn[c].state = "new"
          /\ conn' = [conn EXCEPT ![c].state = "rejected"]
          /\ UNCHANGED <<fleetVars, loading, muxVars, clients, taskVars, clock, out, cmds,
                         events>>
     ELSE IF path.type = "page" /\ path.id # NoId
     THEN ConnectPage(c, path.id[2])
     ELSE IF path.type = "browser" /\ effectiveBrowserId # NoId
     THEN ConnectBrowser(c, effectiveBrowserId[1])
     ELSE /\ Idle
          /\ conn[c].state = "new"
          /\ conn' = [conn EXCEPT ![c].state = "closed"]
          /\ clients' = clients \cup {c}
          /\ UNCHANGED <<fleetVars, loading, muxVars, taskVars, clock, out, cmds, events>>

\* the clientId of page-scope connection c once its handler has made it
PageClientIdOf(c) ==
  LET t == CHOOSE t \in DOMAIN tasks : tasks[t].kind = "page" /\ tasks[t].conn = c
  IN tasks[t].sid

\* the messages the page-scope connections have delivered so far
RECURSIVE SumReceived(_)
SumReceived(cs) ==
  IF cs = {} THEN 0
  ELSE LET c == CHOOSE c \in cs : TRUE IN conn[c].received + SumReceived(cs \ {c})

Received == SumReceived(Conns)

\* ws 'message' on a page-scope connection; the client numbers its
\* messages 1, 2, ... : handled at once when sessionReady, buffered otherwise
PageMessage(c) ==
  LET id == conn[c].received + 1
      f == PageForward(c, PageClientIdOf(c), id)
  IN /\ Idle
     /\ conn[c].state = "open"
     /\ conn[c].pageId # NoPage
     /\ Received < MaxMsgs
     /\ IF conn[c].sessionReady
        THEN /\ conn' = [conn EXCEPT ![c].received = id]
             /\ sessions' = f.sessions
             /\ inflight' = f.inflight
             /\ cmds' = f.cmds
        ELSE /\ conn' = [conn EXCEPT ![c].received = id,
                                     ![c].messageBuffer = Append(@, id)]
             /\ UNCHANGED <<sessions, inflight, cmds>>
     /\ UNCHANGED <<fleetVars, loading, dbg, stale, clients, taskVars, clock, out, events>>

\* ws 'close' on a page-scope connection: the handler that detaches the
\* client and removes it from the gateway's clients runs when it has been
\* registered, which happens after the buffer is drained
ClosePageConnection(c) ==
  LET p == conn[c].pageId
      sid == PageClientIdOf(c)
  IN /\ Idle
     /\ conn[c].state = "open"
     /\ conn[c].pageId # NoPage
     /\ IF conn[c].closeHandler
        THEN /\ conn' = [conn EXCEPT ![c].state = "closed", ![c].sessionReady = FALSE]
             /\ sessions' = DetachClientSessions(sessions, p, sid)
             /\ dbg' = DetachClientDbg(dbg, sessions, p, sid)
             /\ stale' = IF DetachClientReleased(sessions, p, sid)
                         THEN stale \cup {n \in inflight : cmds[n].page = p}
                         ELSE stale
             /\ clients' = clients \ {c}
        ELSE /\ conn' = [conn EXCEPT ![c].state = "closed"]
             /\ UNCHANGED <<sessions, dbg, stale, clients>>
     /\ UNCHANGED <<fleetVars, loading, inflight, taskVars, clock, out, cmds, events>>

\* ---- commands of a session
\* a session's send callback: a flattened session wraps the message in
\* Target.receivedMessageFromTarget {sessionId, message, targetId}, a
\* page-scope connection is sent the message as it is
Verbatim(t) ==
  CASE t = "receivedResult" -> "result"
    [] t = "receivedError" -> "errorResult"
    [] OTHER -> "event"

Deliver(o, cb, t, id, n) ==
  SendFrames(o, cb.conn, <<IF cb.flat THEN Frame(t, cb.sid, cb.page, id, n)
                           ELSE Frame(Verbatim(t), NoSid, NoPage, id, n)>>)

\* the methods a client sends to a session: one the switch of
\* handleBrowserMessage has no case for and one it has a case for
Methods == {"Page.enable", "Target.getTargets"}
BrowserMethods == {"Target.getTargets"}

\* handleBrowserMessage switches on msg.method before it looks at a
\* top-level sessionId: a method with a case is answered by the gateway
HandledByGateway(shape, method) == shape = "top" /\ method \in BrowserMethods

\* a command M for session sid arriving on a browser connection, as
\* Target.sendMessageToTarget ("wrapped") or with a top-level sessionId
\* ("top"): handleClientMessage up to `await debugger.sendCommand`, or the
\* gateway's own handler
SendCommand(c, sid, id, shape, method) ==
  LET p == TargetOfSession(sid)
      n == Len(cmds) + 1
      cmd == [conn |-> c, sid |-> sid, id |-> id, page |-> p, shape |-> shape,
              method |-> method, bound |-> ClientFound(sessions, p, sid),
              status |-> "dropped", cb |-> NoCallback, ok |-> TRUE]
  IN /\ Idle
     /\ IsBrowserClient(c)
     /\ Len(cmds) < MaxCmds
     /\ sid \in KnownSids
     /\ IF HandledByGateway(shape, method)
        THEN /\ cmds' = Append(cmds, [cmd EXCEPT !.status = "gateway"])
             /\ out' = SendFrames(out, c, <<Frame("gatewayResult", NoSid, NoPage, id, n)>>)
             /\ UNCHANGED <<sessions, inflight>>
        ELSE /\ IF ClientFound(sessions, p, sid)
                THEN /\ sessions' = [sessions EXCEPT ![p].pendingMessages = Put(@, id, sid)]
                     /\ inflight' = inflight \cup {n}
                     /\ cmds' = Append(cmds, [cmd EXCEPT !.status = "inflight",
                                                         !.cb = sessions[p].clientsMap[sid]])
                ELSE /\ cmds' = Append(cmds, cmd)
                     /\ UNCHANGED <<sessions, inflight>>
             /\ out' = IF shape = "wrapped"
                       THEN SendFrames(out, c, <<Frame("sendMessageAck", sid, p, 0, n)>>)
                       ELSE out
     /\ UNCHANGED <<fleetVars, loading, dbg, stale, clients, conn, taskVars, clock, events>>

\* the client object the pending handleClientMessage answers through: the
\* one it looked up before the await
ResponseClient(n) == cmds[n].cb

\* debugger.sendCommand settles: the response or the -32000 error is sent
CommandResult(n, ok) ==
  LET p == cmds[n].page
  IN /\ Idle
     /\ n \in inflight
     /\ out' = Deliver(out, ResponseClient(n), IF ok THEN "receivedResult" ELSE "receivedError",
                       cmds[n].id, n)
     /\ sessions' = IF n \notin stale /\ sessions[p].exists
                    THEN [sessions EXCEPT ![p].pendingMessages = Remove(@, cmds[n].id)]
                    ELSE sessions
     /\ inflight' = inflight \ {n}
     /\ stale' = stale \ {n}
     /\ cmds' = [cmds EXCEPT ![n].status = "answered", ![n].ok = ok]
     /\ microq' = SelectSeq([t \in DOMAIN tasks |-> t],
                            LAMBDA t : tasks[t].pc = "drain" /\ tasks[t].cmd = n)
     /\ UNCHANGED <<fleetVars, loading, dbg, clients, conn, tasks, loadWaiters, clock,
                    events>>

\* handleDebuggerMessage: the event goes to every client of the page's
\* session, in the insertion order of session.clients
RECURSIVE HandleDebuggerMessage(_, _, _, _)
HandleDebuggerMessage(o, s, i, e) ==
  IF i > Len(s.clients) THEN o
  ELSE HandleDebuggerMessage(
         IF s.clients[i] \in DOMAIN s.clientsMap
         THEN Deliver(o, s.clientsMap[s.clients[i]], "receivedEvent", e, 0)
         ELSE o,
         s, i + 1, e)

RECURSIVE EmitDebuggerMessage(_, _, _, _)
EmitDebuggerMessage(o, p, listeners, e) ==
  IF listeners = 0 \/ ~sessions[p].exists THEN o
  ELSE EmitDebuggerMessage(HandleDebuggerMessage(o, sessions[p], 1, e), p, listeners - 1, e)

\* the page's debugger emits 'message': each registered listener runs
DebuggerEvent(p) ==
  /\ Idle
  /\ dbg[p].listeners > 0
  /\ Len(events) < MaxEvents
  /\ events' = Append(events, p)
  /\ out' = EmitDebuggerMessage(out, p, dbg[p].listeners, Len(events) + 1)
  /\ UNCHANGED <<fleetVars, loading, muxVars, clients, conn, taskVars, clock, cmds>>

\* ---- fleet: pages of a browser
\* one store mutation: a page upserted into or removed from browser b, with
\* the open discovering connections of b at that moment
Mutation(op, b, p) ==
  [op |-> op, browser |-> b, page |-> p,
   seen |-> {c \in clients : /\ conn[c].state = "open" /\ conn[c].browserId = b
                              /\ conn[c].discoverTargets}]

\* store.removePage happens when the browser holds the page
Removed(log, b, p) ==
  IF browsers[b].exists /\ p \in Range(browsers[b].pages)
  THEN Append(log, Mutation("remove", b, p)) ELSE log

\* store.removeBrowser deletes the pages of the browser
RECURSIVE RemovedAll(_, _, _)
RemovedAll(log, b, pages) ==
  IF pages = <<>> THEN log
  ELSE RemovedAll(Append(log, Mutation("remove", b, Head(pages))), b, Tail(pages))

\* BrowserFleetManager.createPage: an activated page has the active view
\* attached and is then navigated
BrowserCreatePage(B, b, p, isActive, afterPageId) ==
  [B EXCEPT ![b] = IF isActive
                   THEN Navigate(AttachActiveView(CreatePage(@, p, isActive, afterPageId)), p)
                   ELSE CreatePage(@, p, isActive, afterPageId)]

\* BrowserFleetManager.closePage: the active view is attached after the removal
BrowserRemovePage(B, b, p) == [B EXCEPT ![b] = AttachActiveView(RemovePage(@, p))]

\* the clients a broadcast for browser b reaches
Discovering(b) == {c \in clients : conn[c].browserId = b /\ conn[c].discoverTargets}

\* a broadcast that ignores the browser a client is scoped to
BroadcastTargetCreatedUnscoped(o, b, p) ==
  [c \in Conns |-> IF c \in clients /\ conn[c].discoverTargets
                   THEN SendFrames(o, c, <<TargetCreated(p)>>)[c]
                   ELSE o[c]]

\* CdpGateway.broadcastTargetCreated
BroadcastTargetCreated(o, b, p) ==
  [c \in Conns |-> IF c \in Discovering(b) THEN SendFrames(o, c, <<TargetCreated(p)>>)[c]
                   ELSE o[c]]

\* a broadcast that puts the event ahead of the frames already written
BroadcastTargetDestroyedAhead(o, b, p) ==
  [c \in Conns |-> IF c \in Discovering(b) /\ conn[c].state = "open"
                   THEN <<TargetDestroyed(p)>> \o o[c]
                   ELSE o[c]]

\* CdpGateway.broadcastTargetDestroyed: the event, and attachedTargets.delete
BroadcastTargetDestroyed(o, b, p) ==
  [c \in Conns |-> IF c \in Discovering(b) THEN SendFrames(o, c, <<TargetDestroyed(p)>>)[c]
                   ELSE o[c]]

ForgetTarget(C, b, p) ==
  [c \in Conns |-> IF c \in Discovering(b)
                   THEN [C[c] EXCEPT !.attachedTargets = @ \ {p}] ELSE C[c]]

\* the webContents of a removed page is destroyed: its debugger detaches
PageRemoved(b, p) == p \in Range(browsers[b].pages)

DestroyedDbg(b, p) ==
  IF PageRemoved(b, p) /\ dbg[p].attached
  THEN [dbg EXCEPT ![p] = [attached |-> FALSE, listeners |-> 0]] ELSE dbg

DestroyedSessions(b, p) ==
  IF PageRemoved(b, p) /\ dbg[p].listeners > 0
  THEN [sessions EXCEPT ![p].attached = FALSE] ELSE sessions

\* Target.setDiscoverTargets: the existing pages are announced when enabled
\* a replay that leaves out the first page of the browser
ExistingTargetsButFirst(pages) ==
  [i \in 1..(Len(pages) - 1) |-> TargetCreated(pages[i + 1])]

RECURSIVE ExistingTargets(_)
ExistingTargets(pages) ==
  IF pages = <<>> THEN <<>> ELSE <<TargetCreated(Head(pages))>> \o ExistingTargets(Tail(pages))

HandleSetDiscoverTargets(c, discover) ==
  /\ Idle
  /\ IsBrowserClient(c)
  /\ nFleetOps < MaxFleetOps
  /\ nFleetOps' = nFleetOps + 1
  /\ conn' = [conn EXCEPT ![c].discoverTargets = discover]
  /\ out' = IF discover
            THEN SendFrames(out, c, ExistingTargets(browsers[conn[c].browserId].pages))
            ELSE out
  /\ UNCHANGED <<browsers, nextPage, mutations, loading, muxVars, clients, taskVars, clock,
                 cmds, events>>

\* the targetIds of a targetInfos array in its order, as one number (a
\* pageId is a digit in base MaxPages + 1)
RECURSIVE PageListCode(_)
PageListCode(pages) ==
  IF pages = <<>> THEN 0
  ELSE PageListCode(SubSeq(pages, 1, Len(pages) - 1)) * (MaxPages + 1) + pages[Len(pages)]

\* the result of Target.getTargets: one targetInfo for each page of
\* browser.pagesList of the connection's browser
GetTargetsResult(c) ==
  Frame("targetInfos", NoSid, NoPage, PageListCode(browsers[conn[c].browserId].pages), 0)

\* Target.getTargets (the request is counted with the fleet operations)
HandleGetTargets(c) ==
  /\ Idle
  /\ IsBrowserClient(c)
  /\ nFleetOps < MaxFleetOps
  /\ nFleetOps' = nFleetOps + 1
  /\ out' = SendFrames(out, c, <<GetTargetsResult(c)>>)
  /\ UNCHANGED <<browsers, nextPage, mutations, loading, muxVars, clients, conn, taskVars,
                 clock, cmds, events>>

\* BrowserFleetManager.createPage from the UI (IPC page:create, window.open):
\* an activated page is navigated; Target.targetCreated is broadcast
UICreatePage(b, activate, afterPageId) ==
  /\ Idle
  /\ browsers[b].exists
  /\ nextPage <= MaxPages
  /\ nFleetOps < MaxFleetOps
  /\ nFleetOps' = nFleetOps + 1
  /\ browsers' = EmitState(BrowserCreatePage(browsers, b, nextPage, activate, afterPageId))
  /\ mutations' = Append(mutations, Mutation("insert", b, nextPage))
  /\ nextPage' = nextPage + 1
  /\ loading' = IF activate THEN loading \cup {nextPage} ELSE loading
  /\ out' = BroadcastTargetCreated(out, b, nextPage)
  /\ UNCHANGED <<muxVars, clients, conn, taskVars, clock, cmds, events>>

CreateResponse(p) == Frame("createResponse", NoSid, p, 0, 0)

\* Target.createTarget: fleetManager.createPage without activation, the
\* {targetId} response, then auto-attach when the client enabled it
HandleCreateTarget(c) ==
  LET b == conn[c].browserId
      p == nextPage
      sid == SessionId(p, clock)
      announced == SendFrames(BroadcastTargetCreated(out, b, p), c, <<CreateResponse(p)>>)
  IN /\ Idle
     /\ IsBrowserClient(c)
     /\ nextPage <= MaxPages
     /\ nFleetOps < MaxFleetOps
     /\ conn[c].autoAttach.enabled => Len(tasks) < MaxTasks
     /\ nFleetOps' = nFleetOps + 1
     /\ IF ~browsers[b].exists
        THEN /\ out' = SendFrames(out, c, <<ErrorResponse(-32000)>>)
             /\ UNCHANGED <<browsers, nextPage, mutations, conn, tasks>>
        ELSE /\ browsers' = EmitState(BrowserCreatePage(browsers, b, p, FALSE, NoPage))
             /\ mutations' = Append(mutations, Mutation("insert", b, p))
             /\ nextPage' = p + 1
             /\ IF conn[c].autoAttach.enabled
                THEN /\ conn' = [conn EXCEPT ![c].attachedTargets = @ \cup {p}]
                     /\ IF conn[c].autoAttach.flatten
                        THEN /\ out' = announced
                             /\ tasks' = Append(tasks,
                                                Task("create", c, p, sid, "timer", "pending"))
                        ELSE /\ out' = SendFrames(announced, c, <<AttachedToTarget(sid, p)>>)
                             /\ tasks' = Append(tasks,
                                                Task("create", c, p, sid, "done", "unbound"))
                ELSE /\ out' = announced
                     /\ UNCHANGED <<conn, tasks>>
     /\ UNCHANGED <<loading, muxVars, clients, loadWaiters, microq, clock, cmds, events>>

\* BrowserFleetManager.closePage from the UI: the broadcast is made whether
\* or not the browser had the page
UIClosePage(b, p) ==
  /\ Idle
  /\ browsers[b].exists
  /\ nFleetOps < MaxFleetOps
  /\ nFleetOps' = nFleetOps + 1
  /\ browsers' = EmitState(BrowserRemovePage(browsers, b, p))
  /\ mutations' = Removed(mutations, b, p)
  /\ dbg' = DestroyedDbg(b, p)
  /\ sessions' = DestroyedSessions(b, p)
  /\ loading' = IF PageRemoved(b, p) THEN loading \ {p} ELSE loading
  /\ out' = BroadcastTargetDestroyed(out, b, p)
  /\ conn' = ForgetTarget(conn, b, p)
  /\ UNCHANGED <<nextPage, inflight, stale, clients, taskVars, clock, cmds, events>>

CloseResponse(p) == Frame("closeResponse", NoSid, p, 0, 0)

\* Target.closeTarget: the page is looked up in every browser and closed
\* in the connection's browser; the issuer is sent Target.targetDestroyed
\* after the response when it discovers targets
HandleCloseTarget(c, p) ==
  LET b == conn[c].browserId
      closed == SendFrames(IF browsers[b].exists THEN BroadcastTargetDestroyed(out, b, p)
                           ELSE out, c, <<CloseResponse(p)>>)
      forgot == IF browsers[b].exists THEN ForgetTarget(conn, b, p) ELSE conn
  IN /\ Idle
     /\ IsBrowserClient(c)
     /\ nFleetOps < MaxFleetOps
     /\ nFleetOps' = nFleetOps + 1
     /\ IF p = NoPage \/ ~PageExists(p)
        THEN /\ out' = SendFrames(out, c, <<IF p = NoPage THEN MissingTargetId
                                            ELSE TargetNotFound(p)>>)
             /\ UNCHANGED <<browsers, mutations, dbg, sessions, loading, conn>>
        ELSE /\ browsers' = EmitState(BrowserRemovePage(browsers, b, p))
             /\ mutations' = Removed(mutations, b, p)
             /\ dbg' = DestroyedDbg(b, p)
             /\ sessions' = DestroyedSessions(b, p)
             /\ loading' = IF PageRemoved(b, p) THEN loading \ {p} ELSE loading
             /\ out' = IF conn[c].discoverTargets
                       THEN SendFrames(closed, c, <<TargetDestroyed(p)>>)
                       ELSE closed
             /\ conn' = [forgot EXCEPT ![c].attachedTargets = @ \ {p}]
     /\ UNCHANGED <<nextPage, inflight, stale, clients, taskVars, clock, cmds, events>>

\* Target.getTargetInfo: without a targetId the browser target is described,
\* with one the page is looked up in every browser and described with the
\* connection's own attached flag (the request is counted with the fleet
\* operations)
TargetInfo(p, attached) == Frame("targetInfo", NoSid, p, IF attached THEN 1 ELSE 0, 0)

HandleGetTargetInfo(c, p) ==
  /\ Idle
  /\ IsBrowserClient(c)
  /\ nFleetOps < MaxFleetOps
  /\ nFleetOps' = nFleetOps + 1
  /\ out' = SendFrames(out, c,
              <<IF p = NoPage THEN TargetInfo(NoPage, FALSE)
                ELSE IF ~PageExists(p) THEN TargetNotFound(p)
                ELSE TargetInfo(p, p \in conn[c].attachedTargets)>>)
  /\ UNCHANGED <<browsers, nextPage, mutations, loading, muxVars, clients, conn, taskVars,
                 clock, cmds, events>>

\* BrowserFleetManager.destroyBrowser: ManagedBrowser.dispose destroys the
\* webContents of every page, clears the pages and removes the browser from
\* the store; the gateway is not told
DisposedDbg(b) ==
  [p \in PageIds |-> IF p \in Range(browsers[b].pages) /\ dbg[p].attached
                      THEN [attached |-> FALSE, listeners |-> 0] ELSE dbg[p]]

DisposedSessions(b) ==
  [p \in PageIds |-> IF p \in Range(browsers[b].pages) /\ dbg[p].listeners > 0
                      THEN [sessions[p] EXCEPT !.attached = FALSE] ELSE sessions[p]]

DestroyBrowser(b) ==
  /\ Idle
  /\ browsers[b].exists
  /\ nFleetOps < MaxFleetOps
  /\ nFleetOps' = nFleetOps + 1
  /\ browsers' = EmitState([browsers EXCEPT ![b] =
                              [NoBrowser EXCEPT !.disposed = TRUE,
                                                !.held = [browsers[b].held EXCEPT !.shared = FALSE]]])
  /\ mutations' = RemovedAll(mutations, b, browsers[b].pages)
  /\ dbg' = DisposedDbg(b)
  /\ sessions' = DisposedSessions(b)
  /\ loading' = loading \ Range(browsers[b].pages)
  /\ UNCHANGED <<nextPage, inflight, stale, clients, conn, taskVars, clock, out, cmds,
                 events>>

\* BrowserFleetManager.createBrowser: a browser with a fresh id and its
\* initial page, active and navigated
CreateBrowser(b) ==
  /\ Idle
  /\ ~browsers[b].exists /\ ~browsers[b].disposed
  /\ nextPage <= MaxPages
  /\ browsers' = EmitState(BrowserCreatePage([browsers EXCEPT ![b] = NewBrowser], b, nextPage,
                                             TRUE, NoPage))
  /\ mutations' = Append(mutations, Mutation("insert", b, nextPage))
  /\ nextPage' = nextPage + 1
  /\ loading' = loading \cup {nextPage}
  /\ UNCHANGED <<nFleetOps, muxVars, clients, conn, taskVars, clock, out, cmds, events>>

\* BrowserFleetManager.selectPage (IPC page:select) with any pageId
SelectPage(b, pageId) ==
  /\ Idle
  /\ browsers[b].exists
  /\ browsers' = EmitState([browsers EXCEPT ![b] = AttachActiveView(SetActivePage(@, pageId))])
  /\ UNCHANGED <<nextPage, nFleetOps, mutations, loading, muxVars, clients, conn, taskVars,
                 clock, out, cmds, events>>

\* a webContents event of a page (title, favicon, navigation): updatePage
\* upserts the page's store model with the flags it has
PageEvent(b, p) ==
  /\ Idle
  /\ browsers[b].exists
  /\ p \in Range(browsers[b].pages)
  /\ browsers' = EmitState([browsers EXCEPT ![b] = PageSetActive(@, p, p \in @.storeFlags)])
  /\ UNCHANGED <<nextPage, nFleetOps, mutations, loading, muxVars, clients, conn, taskVars,
                 clock, out, cmds, events>>

\* Target.setAutoAttach: the setting is stored and, when enabled, the pages
\* of the connection's browser are attached in pagesList order
HandleSetAutoAttach(c, autoAttach, flatten) ==
  LET b == conn[c].browserId
      t == Len(tasks) + 1
      r == IF autoAttach
           THEN AutoAttachLoop(browsers[b].pages, conn[c].attachedTargets, <<>>, flatten)
           ELSE LoopResult("done", NoPage, NoSid, <<>>, conn[c].attachedTargets, <<>>)
  IN /\ Idle
     /\ IsBrowserClient(c)
     /\ Len(tasks) < MaxTasks
     /\ conn' = [conn EXCEPT ![c].autoAttach = [enabled |-> autoAttach, flatten |-> flatten],
                             ![c].attachedTargets = r.att]
     /\ out' = SendFrames(out, c, r.frames)
     /\ tasks' = Append(tasks, [Task("setAuto", c, r.page, r.sid, r.pc, "pending")
                                  EXCEPT !.rest = r.rest,
                                         !.todo = IF autoAttach
                                                  THEN Range(browsers[b].pages)
                                                         \ conn[c].attachedTargets
                                                  ELSE {}])
     /\ loadWaiters' = IF r.pc = "load" THEN Append(loadWaiters, t) ELSE loadWaiters
     /\ UNCHANGED <<fleetVars, loading, muxVars, clients, microq, clock, cmds, events>>

\* the 100 ms timer of handleSetAutoAttach fires: attachClient is called
SettleTimerFired(t) ==
  /\ Idle
  /\ tasks[t].pc = "settle"
  /\ tasks' = [tasks EXCEPT ![t].pc = "ready"]
  /\ microq' = <<t>>
  /\ UNCHANGED <<fleetVars, loading, muxVars, clients, conn, loadWaiters, clock, out,
                 cmds, events>>

\* two clients have connected to ws://.../devtools/browser/b1 and the first
\* has enabled target discovery
InitConnected ==
  /\ Init!1 /\ Init!2 /\ Init!3 /\ Init!4 /\ Init!5 /\ Init!6 /\ Init!7
  /\ clients = Conns
  /\ conn = [c \in Conns |-> [NewClient EXCEPT !.state = "open", !.browserId = "b1",
                                                !.discoverTargets = (c = "c1")]]
  /\ tasks = <<>>
  /\ loadWaiters = <<>>
  /\ microq = <<>>
  /\ clock = 0
  /\ out = [c \in Conns |-> IF c = "c1" THEN <<TargetCreated(1)>> ELSE <<>>]
  /\ cmds = <<>>
  /\ events = <<>>
  /\ nFleetOps = 0
  /\ mutations = <<>>

\* the pages the clients of the multiplexer specifications attach to
MuxTargets == {1, 3}

\* attach, detach, debugger events and external detach on one page
Next ==
  \/ Tick
  \/ \E c \in Conns, p \in MuxTargets, flatten \in BOOLEAN : HandleAttachToTarget(c, p, flatten)
  \/ \E t \in DOMAIN tasks : TimerFired(t)
  \/ \E t \in DOMAIN tasks : LoadTimeout(t)
  \/ \E p \in PageIds : LoadEvent(p)
  \/ \E p \in PageIds : StartLoading(p)
  \/ RunMicrotask
  \/ \E c \in Conns, sid \in KnownSids : HandleDetachFromTarget(c, sid)
  \/ \E p \in PageIds : DebuggerDetached(p)
  \/ \E p \in PageIds : DebuggerEvent(p)

Spec == InitConnected /\ [][Next]_vars

\* attach and commands of the attached sessions
CmdNext ==
  \/ Tick
  \/ \E c \in Conns, p \in MuxTargets, flatten \in BOOLEAN : HandleAttachToTarget(c, p, flatten)
  \/ \E t \in DOMAIN tasks : TimerFired(t)
  \/ RunMicrotask
  \/ \E c \in Conns, sid \in KnownSids, id \in CmdIds, shape \in {"wrapped", "top"},
        method \in Methods :
       SendCommand(c, sid, id, shape, method)
  \/ \E n \in inflight, ok \in BOOLEAN : CommandResult(n, ok)

CmdSpec == InitConnected /\ [][CmdNext]_vars

\* pages created and closed by clients and the UI, target discovery
FleetNext ==
  \/ \E c \in Conns, b \in Browsers : ConnectBrowser(c, b)
  \/ \E c \in Conns : CloseConnection(c)
  \/ \E c \in Conns, discover \in BOOLEAN : HandleSetDiscoverTargets(c, discover)
  \/ \E b \in Browsers, activate \in BOOLEAN, after \in 0..MaxPages :
       UICreatePage(b, activate, after)
  \/ \E c \in Conns : HandleCreateTarget(c)
  \/ \E b \in Browsers, p \in KnownPageIds : UIClosePage(b, p)
  \/ \E c \in Conns, p \in KnownPageIds : HandleCloseTarget(c, p)
  \/ \E b \in Browsers : DestroyBrowser(b)
  \/ \E p \in PageIds : LoadEvent(p)

FleetSpec == Init /\ [][FleetNext]_vars

\* auto-attach: Target.setAutoAttach and Target.createTarget
AutoNext ==
  \/ Tick
  \/ \E c \in Conns, autoAttach \in BOOLEAN, flatten \in BOOLEAN :
       HandleSetAutoAttach(c, autoAttach, flatten)
  \/ \E c \in Conns : HandleCreateTarget(c)
  \/ \E t \in DOMAIN tasks : TimerFired(t)
  \/ \E t \in DOMAIN tasks : SettleTimerFired(t)
  \/ \E t \in DOMAIN tasks : LoadTimeout(t)
  \/ \E p \in PageIds : LoadEvent(p)
  \/ \E p \in PageIds : StartLoading(p)
  \/ RunMicrotask

AutoSpec == InitConnected /\ [][AutoNext]_vars

\* sessions attached to pages that are then closed or destroyed
DestroyNext ==
  \/ \E c \in Conns, flatten \in BOOLEAN : HandleAttachToTarget(c, 1, flatten)
  \/ \E t \in DOMAIN tasks : TimerFired(t)
  \/ RunMicrotask
  \/ \E b \in Browsers, p \in KnownPageIds : UIClosePage(b, p)
  \/ \E c \in Conns, p \in KnownPageIds : HandleCloseTarget(c, p)
  \/ \E b \in Browsers : DestroyBrowser(b)

DestroySpec == InitConnected /\ [][DestroyNext]_vars

\* clients of the page endpoint: connect, send, close
PageNext ==
  \/ Tick
  \/ \E c \in Conns, p \in MuxTargets : ConnectPage(c, p)
  \/ \E t \in DOMAIN tasks : TimerFired(t)
  \/ \E t \in DOMAIN tasks : SettleTimerFired(t)
  \/ RunMicrotask
  \/ \E c \in Conns : PageMessage(c)
  \/ \E n \in inflight, ok \in BOOLEAN : CommandResult(n, ok)
  \/ \E c \in Conns : ClosePageConnection(c)

PageSpec == Init /\ [][PageNext]_vars

\* connections of both scopes that attach and close; timers fire and
\* promise continuations run (the event loop does not starve them)
CloseNext ==
  \/ Tick
  \/ \E c \in Conns : ConnectBrowser(c, "b1")
  \/ \E c \in Conns : HandleAttachToTarget(c, 1, TRUE)
  \/ \E c \in Conns : CloseConnection(c)
  \/ \E c \in Conns : ConnectPage(c, 1)
  \/ \E c \in Conns : ClosePageConnection(c)
  \/ \E t \in DOMAIN tasks : TimerFired(t)
  \/ \E t \in DOMAIN tasks : SettleTimerFired(t)
  \/ RunMicrotask

CloseSpec ==
  /\ Init
  /\ [][CloseNext]_vars
  /\ WF_vars(RunMicrotask)
  /\ \A t \in 1..MaxTasks :
       /\ WF_vars(t \in DOMAIN tasks /\ TimerFired(t))
       /\ WF_vars(t \in DOMAIN tasks /\ SettleTimerFired(t))

\* attaches of every kind, by a browser-scope and a page-scope connection,
\* while page loads start and end or never end; the timers of the handlers
\* fire and ready continuations run
WaitNext ==
  \/ ConnectBrowser("c1", "b1")
  \/ ConnectPage("c2", 1)
  \/ HandleAttachToTarget("c1", 1, TRUE)
  \/ HandleSetAutoAttach("c1", TRUE, TRUE)
  \/ HandleCreateTarget("c1")
  \/ StartLoading(1)
  \/ LoadEvent(1)
  \/ \E t \in DOMAIN tasks : TimerFired(t)
  \/ \E t \in DOMAIN tasks : LoadTimeout(t)
  \/ \E t \in DOMAIN tasks : SettleTimerFired(t)
  \/ RunMicrotask

WaitSpec ==
  /\ Init
  /\ [][WaitNext]_vars
  /\ WF_vars(RunMicrotask)
  /\ \A t \in 1..MaxTasks :
       /\ WF_vars(t \in DOMAIN tasks /\ TimerFired(t))
       /\ WF_vars(t \in DOMAIN tasks /\ LoadTimeout(t))
       /\ WF_vars(t \in DOMAIN tasks /\ SettleTimerFired(t))

\* sessions attached, used for commands and detached while commands are
\* in flight at the debugger
DetachCmdNext ==
  \/ \E c \in Conns : HandleAttachToTarget(c, 1, TRUE)
  \/ \E t \in DOMAIN tasks : TimerFired(t)
  \/ RunMicrotask
  \/ \E c \in Conns, sid \in KnownSids, id \in CmdIds :
       SendCommand(c, sid, id, "wrapped", "Page.enable")
  \/ \E n \in inflight, ok \in BOOLEAN : CommandResult(n, ok)
  \/ \E c \in Conns, sid \in KnownSids : HandleDetachFromTarget(c, sid)

DetachCmdSpec == InitConnected /\ [][DetachCmdNext]_vars

\* page-scope connections to a page whose debugger may be taken by DevTools;
\* the handlers' timers fire, ready continuations run and the debugger
\* answers, while a client is free never to close its socket
PageFailNext ==
  \/ \E c \in Conns : ConnectPage(c, 1)
  \/ DevToolsOpened(1)
  \/ \E t \in DOMAIN tasks : TimerFired(t)
  \/ \E t \in DOMAIN tasks : SettleTimerFired(t)
  \/ RunMicrotask
  \/ \E c \in Conns : PageMessage(c)
  \/ \E n \in inflight, ok \in BOOLEAN : CommandResult(n, ok)
  \/ \E c \in Conns : ClosePageConnection(c)

PageFailSpec ==
  /\ Init
  /\ [][PageFailNext]_vars
  /\ WF_vars(RunMicrotask)
  /\ \A t \in 1..MaxTasks :
       /\ WF_vars(t \in DOMAIN tasks /\ TimerFired(t))
       /\ WF_vars(t \in DOMAIN tasks /\ SettleTimerFired(t))
  /\ \A n \in 1..MaxMsgs : WF_vars(n \in inflight /\ CommandResult(n, TRUE))

\* requests that name a target: none, page 1 (live until it is closed) or 3
\* (never a page)
LookupTargets == {NoPage, 1, 3}

LookupNext ==
  \/ \E c \in Conns, p \in LookupTargets : HandleAttachToTarget(c, p, FALSE)
  \/ \E c \in Conns, p \in LookupTargets : HandleCloseTarget(c, p)
  \/ \E c \in Conns, p \in LookupTargets : HandleGetTargetInfo(c, p)

LookupSpec == InitConnected /\ [][LookupNext]_vars

\* target discovery and Target.getTargets while pages come and go
DiscoverNext ==
  \/ \E c \in Conns, discover \in BOOLEAN : HandleSetDiscoverTargets(c, discover)
  \/ \E c \in Conns : HandleGetTargets(c)
  \/ \E b \in Browsers, activate \in BOOLEAN, after \in 0..MaxPages :
       UICreatePage(b, activate, after)
  \/ \E b \in Browsers, p \in KnownPageIds : UIClosePage(b, p)
  \/ \E b \in Browsers : DestroyBrowser(b)

DiscoverSpec == InitConnected /\ [][DiscoverNext]_vars

\* Target.setAutoAttach over the pages of a browser while pages are created
\* and closed and a page's debugger is taken by DevTools
AutoFailNext ==
  \/ \E c \in Conns, flatten \in BOOLEAN : HandleSetAutoAttach(c, TRUE, flatten)
  \/ \E t \in DOMAIN tasks : SettleTimerFired(t)
  \/ RunMicrotask
  \/ UICreatePage("b1", FALSE, NoPage)
  \/ \E p \in KnownPageIds : UIClosePage("b1", p)
  \/ \E p \in PageIds : DevToolsOpened(p)

AutoFailSpec == InitConnected /\ [][AutoFailNext]_vars

\* upgrade requests on any path while browsers are destroyed, and the
\* connections they open
UpgradeNext ==
  \/ \E c \in Conns, path \in Paths : UpgradeRequest(c, path)
  \/ \E b \in Browsers : DestroyBrowser(b)
  \/ \E t \in DOMAIN tasks : TimerFired(t)
  \/ \E t \in DOMAIN tasks : SettleTimerFired(t)
  \/ RunMicrotask
  \/ \E c \in Conns : CloseConnection(c)
  \/ \E c \in Conns : ClosePageConnection(c)

UpgradeSpec == Init /\ [][UpgradeNext]_vars

\* the fleet manager before any browser is created
InitEmpty ==
  /\ browsers = [b \in Browsers |-> NoBrowser]
  /\ nextPage = 1
  /\ Init!3 /\ Init!4 /\ Init!5 /\ Init!6 /\ Init!7 /\ Init!8 /\ Init!9 /\ Init!10
  /\ Init!11 /\ Init!12 /\ Init!13 /\ Init!14 /\ Init!15 /\ Init!16 /\ Init!17 /\ Init!18

\* browsers and pages created, selected, closed and destroyed from the UI
StoreNext ==
  \/ \E b \in Browsers : CreateBrowser(b)
  \/ \E b \in Browsers, activate \in BOOLEAN, after \in 0..MaxPages :
       UICreatePage(b, activate, after)
  \/ \E b \in Browsers, pageId \in 0..MaxPages : SelectPage(b, pageId)
  \/ \E b \in Browsers, p \in KnownPageIds : UIClosePage(b, p)
  \/ \E b \in Browsers, p \in KnownPageIds : PageEvent(b, p)
  \/ \E b \in Browsers : DestroyBrowser(b)

StoreSpec == InitEmpty /\ [][StoreNext]_vars

\* BrowserFleetManager.getState (IPC browser:getState) by a caller that keeps
\* what it gets: the snapshot's statistics of each browser is the store's
\* statistics object
GetState ==
  /\ Idle
  /\ \E b \in Browsers : browsers[b].exists
  /\ browsers' = [b \in Browsers |->
                    IF browsers[b].exists
                    THEN [browsers[b] EXCEPT !.held = [taken |-> TRUE, shared |-> TRUE,
                                                       pageCount |-> browsers[b].pageCount,
                                                       was |-> browsers[b].pageCount]]
                    ELSE [browsers[b] EXCEPT !.held = NoSnapshot]]
  /\ UNCHANGED <<nextPage, nFleetOps, mutations, loading, muxVars, clients, conn, taskVars,
                 clock, out, cmds, events>>

\* the store changed from the UI while a caller keeps a snapshot
SnapshotNext ==
  \/ \E b \in Browsers : CreateBrowser(b)
  \/ \E b \in Browsers, activate \in BOOLEAN : UICreatePage(b, activate, NoPage)
  \/ \E b \in Browsers, pageId \in KnownPageIds : SelectPage(b, pageId)
  \/ \E b \in Browsers, p \in KnownPageIds : UIClosePage(b, p)
  \/ \E b \in Browsers : DestroyBrowser(b)
  \/ GetState

SnapshotSpec == InitEmpty /\ [][SnapshotNext]_vars

\* BrowserFleetManager.navigatePage (IPC page:navigate): the page of the
\* browser is navigated, whichever view the window shows
NavigatePage(b, p) ==
  /\ Idle
  /\ browsers[b].exists
  /\ p \in Range(browsers[b].pages)
  /\ browsers' = [browsers EXCEPT ![b] = Navigate(@, p)]
  /\ loading' = loading \cup {p}
  /\ UNCHANGED <<nextPage, nFleetOps, mutations, muxVars, clients, conn, taskVars,
                 clock, out, cmds, events>>

\* pages created, selected, navigated and closed from the UI
NavNext ==
  \/ \E b \in Browsers : CreateBrowser(b)
  \/ \E b \in Browsers, activate \in BOOLEAN : UICreatePage(b, activate, NoPage)
  \/ \E b \in Browsers, pageId \in KnownPageIds : SelectPage(b, pageId)
  \/ \E b \in Browsers, p \in KnownPageIds : UIClosePage(b, p)
  \/ \E b \in Browsers, p \in KnownPageIds : NavigatePage(b, p)
  \/ \E b \in Browsers : DestroyBrowser(b)

NavSpec == InitEmpty /\ [][NavNext]_vars

\* ---- properties of the session multiplexer

\* the attach requests that were answered with a sessionId
Issued == {t \in DOMAIN tasks : tasks[t].sid # NoSid}

\* the sessions of connection c on page p whose attach succeeded and that
\* have not been detached since
AttachedSessions(c, p) ==
  {t \in Issued : /\ tasks[t].conn = c /\ tasks[t].page = p /\ tasks[t].pc = "done"
                  /\ tasks[t].result = "ok" /\ ~tasks[t].detached}

\* a connection owns the sessionIds it was sent in an attach response
OwnSid(c, sid) == AttachResponse(sid) \in Range(out[c])

\* the requests in flight or answered so far were given different sessionIds
DistinctIds == \A t1 \in Issued, t2 \in Issued : t1 # t2 => tasks[t1].sid # tasks[t2].sid

IsResponse(f) == f.t \in {"receivedResult", "receivedError", "gatewayResult"}
IsFromTarget(f) == f.t \in {"receivedResult", "receivedError", "receivedEvent"}

\* C1: the response to a command that connection c sent through its own
\* session is written to c and to no other connection.
ResponseOnlyToSender ==
  \A c \in Conns : \A i \in DOMAIN out[c] :
    (IsResponse(out[c][i]) /\ OwnSid(cmds[out[c][i].cmd].conn, cmds[out[c][i].cmd].sid))
      => cmds[out[c][i].cmd].conn = c

\* C2: a command sent on a sessionId the connection received from
\* Target.attachToTarget, once handleClientMessage is through with it, has
\* exactly one response (result or error) on that connection.
ExactlyOneResponse ==
  \A n \in DOMAIN cmds :
    (OwnSid(cmds[n].conn, cmds[n].sid) /\ cmds[n].status # "inflight")
      => Count(out[cmds[n].conn], LAMBDA f : IsResponse(f) /\ f.cmd = n) = 1

\* C3: while the sessionIds are distinct and the attach requests for page p
\* came from distinct connections, a debugger event on p is written exactly
\* once to each connection with an attached session and to no other.
EventOncePerAttachedSession ==
  [][\A p \in PageIds :
       (/\ events' = Append(events, p)
        /\ DistinctIds
        /\ \A t1 \in Issued, t2 \in Issued :
             (t1 # t2 /\ tasks[t1].page = p /\ tasks[t2].page = p)
               => tasks[t1].conn # tasks[t2].conn) =>
       \A c \in Conns :
         Len(out'[c]) = Len(out[c]) + Cardinality(AttachedSessions(c, p))]_vars

\* C4: on a connection the {sessionId} response precedes
\* Target.attachedToTarget, and both precede every
\* Target.receivedMessageFromTarget of that sessionId (sessionIds distinct).
AttachOrder ==
  DistinctIds => \A c \in Conns : \A i \in DOMAIN out[c] :
    /\ out[c][i].t = "attachedToTarget" =>
         \E j \in 1..(i - 1) : out[c][j] = AttachResponse(out[c][i].sid)
    /\ IsFromTarget(out[c][i]) =>
         \E j \in 1..(i - 1), k \in 1..(i - 1) :
           /\ j < k
           /\ out[c][j] = AttachResponse(out[c][i].sid)
           /\ out[c][k] = AttachedToTarget(out[c][i].sid, out[c][i].page)

\* C5: a finished flattened Target.attachToTarget that returned sessionId s
\* has exactly one Target.attachedToTarget with s on its connection when the
\* attach succeeded and none when it failed.
OneAttachedEventPerAttach ==
  \A t \in Issued :
    LET n == Count(out[tasks[t].conn],
                   LAMBDA f : f = AttachedToTarget(tasks[t].sid, tasks[t].page))
    IN /\ (tasks[t].pc = "done" /\ tasks[t].result = "ok") => n = 1
       /\ (tasks[t].pc = "done" /\ tasks[t].result = "failed") => n = 0

\* C7: at rest (no attachClient between its call and its return) a page has
\* a session entry with an attached debugger iff it has a registered client,
\* and a page without clients has neither entry nor attached debugger.
AttachInProgress(p) ==
  \E t \in DOMAIN tasks : tasks[t].page = p /\ tasks[t].pc \in {"attaching"}

BindingIffClients ==
  \A p \in PageIds :
    (Idle /\ ~AttachInProgress(p)) =>
      /\ (sessions[p].exists /\ sessions[p].attached /\ dbg[p].attached)
           <=> Len(sessions[p].clients) > 0
      /\ Len(sessions[p].clients) = 0 => (~sessions[p].exists /\ ~dbg[p].attached)

\* C8: no two attach requests are answered with the same sessionId.
SessionIdsDistinct ==
  \A t1 \in DOMAIN tasks, t2 \in DOMAIN tasks :
    (t1 < t2 /\ tasks[t1].sid # NoSid) => tasks[t2].sid # tasks[t1].sid

\* while the sessionIds are distinct, the response stays with the sender and
\* an attach has its one Target.attachedToTarget
ResponseOnlyToSenderIfDistinct == DistinctIds => ResponseOnlyToSender
OneAttachedEventIfDistinct == DistinctIds => OneAttachedEventPerAttach

\* ---- properties of auto-attach and of the target broadcasts

\* the frames a step writes to connection c
NewFrames(c) == SubSeq(out'[c], Len(out[c]) + 1, Len(out'[c]))

\* C6: when auto-attach writes Target.attachedToTarget for sessionId s, the
\* session manager holds client s on the page and the debugger is attached.
AutoAttachedIsBound ==
  [][\A c \in Conns : \A i \in DOMAIN NewFrames(c) :
       LET f == NewFrames(c)[i]
       IN f.t = "attachedToTarget" =>
            /\ ClientFound(sessions', f.page, f.sid)
            /\ sessions'[f.page].attached
            /\ dbg'[f.page].attached]_vars

\* C9: the step that creates page P in browser B writes exactly one
\* Target.targetCreated for P to every open connection scoped to B with
\* discovery enabled, and none to any other connection.
TargetCreatedOnce ==
  [][nextPage' = nextPage + 1 =>
       \A c \in Conns :
         Count(NewFrames(c), LAMBDA f : f = TargetCreated(nextPage)) =
           IF /\ IsBrowserClient(c)
              /\ conn[c].discoverTargets
              /\ nextPage \in Range(browsers'[conn[c].browserId].pages)
           THEN 1 ELSE 0]_vars

\* a discovering client of b1 was sent the creation of page 3 once while
\* a discovering client of b2 was sent nothing about it
TargetCreatedOnceWitness ==
  \E c \in Conns, d \in Conns :
    /\ IsBrowserClient(c) /\ conn[c].browserId = "b1" /\ conn[c].discoverTargets
    /\ IsBrowserClient(d) /\ conn[d].browserId = "b2" /\ conn[d].discoverTargets
    /\ 3 \in Range(browsers["b1"].pages)
    /\ out[c] = <<TargetCreated(1), TargetCreated(3)>>
    /\ out[d] = <<TargetCreated(2)>>

\* C10: the step that removes page P from browser B writes exactly one
\* Target.targetDestroyed for P to every discovering connection scoped to B.
TargetDestroyedOnce ==
  [][\A b \in Browsers, p \in PageIds :
       (p \in Range(browsers[b].pages) /\ p \notin Range(browsers'[b].pages)) =>
         \A c \in Discovering(b) :
           conn[c].state = "open" =>
             Count(NewFrames(c), LAMBDA f : f = TargetDestroyed(p)) = 1]_vars

\* C11: a step writes Target.targetDestroyed for page P to a connection only
\* when it removes P from the page list of that connection's browser, and
\* then writes it once; a close of a page the browser does not hold writes
\* none.
DestroyedOnlyOnRemoval ==
  [][\A c \in Conns, p \in PageIds :
       LET n == Count(NewFrames(c), LAMBDA f : f = TargetDestroyed(p))
           b == conn[c].browserId
       IN n > 0 => /\ p \in Range(browsers[b].pages)
                   /\ p \notin Range(browsers'[b].pages)
                   /\ n = 1]_vars

\* the Target.targetDestroyed events of a list of pages, in its order
RECURSIVE DestroyedTargets(_)
DestroyedTargets(pages) ==
  IF pages = <<>> THEN <<>>
  ELSE <<TargetDestroyed(Head(pages))>> \o DestroyedTargets(Tail(pages))

\* C12: the step that destroys browser B writes Target.targetDestroyed for
\* each of B's pages, in the order of B's page list, to every open
\* discovering connection scoped to B.
DestroyBrowserAnnounced ==
  [][\A b \in Browsers :
       (browsers[b].exists /\ ~browsers'[b].exists) =>
         \A c \in Discovering(b) :
           conn[c].state = "open" => NewFrames(c) = DestroyedTargets(browsers[b].pages)]_vars

\* the event a discovering connection is sent for a store mutation
EventOf(m) == IF m.op = "insert" THEN TargetCreated(m.page) ELSE TargetDestroyed(m.page)

ActiveAfterRemove ==
  [][\A b \in Browsers, p \in PageIds :
       LET pages == browsers[b].pages
           i == IndexOf(pages, p)
           expected == IF browsers[b].storeActive # p THEN browsers[b].storeActive
                       ELSE IF i < Len(pages) THEN pages[i + 1]
                       ELSE IF i > 1 THEN pages[i - 1]
                       ELSE NoPage
       IN (browsers'[b].exists /\ i > 0 /\ p \notin Range(browsers'[b].pages))
            => browsers'[b].storeActive = expected]_vars

\* C15: in every store snapshot the activePageId of a browser is null or the
\* pageId of one of the pages the store lists for that browser.
ActivePageIsMember ==
  \A b \in Browsers :
    browsers[b].exists =>
      \/ browsers[b].storeActive = NoPage
      \/ browsers[b].storeActive \in Range(browsers[b].storePages)

\* a browser was destroyed, a page was closed, and in a browser that still
\* has its active page a page:select named a page the browser does not
\* hold (the current page lost its isActive flag)
ActivePageIsMemberWitness ==
  /\ \E b \in Browsers : browsers[b].disposed
  /\ \E b \in Browsers :
       /\ browsers[b].exists
       /\ \E i \in DOMAIN mutations :
            mutations[i].op = "remove" /\ mutations[i].browser = b
       /\ browsers[b].storeActive \in Range(browsers[b].storePages)
       /\ browsers[b].storeFlags = {}

\* the store and the ManagedBrowser agree on the pages and the active page
StoreInSync ==
  \A b \in Browsers :
    /\ browsers[b].storeActive = browsers[b].activePageId
    /\ Range(browsers[b].storePages) = Range(browsers[b].pages)
    /\ browsers[b].storeFlags \subseteq {browsers[b].storeActive}

\* ---- properties of connection close and page destruction

\* the clients the session manager holds whose send callback writes to c
OwnedClients(c) ==
  {<<p, id>> \in PageIds \X (KnownSids \cup {tasks[t].sid : t \in DOMAIN tasks}) :
     /\ sessions[p].exists
     /\ id \in DOMAIN sessions[p].clientsMap
     /\ sessions[p].clientsMap[id].conn = c}

\* C16: once a connection has closed, eventually the session manager holds
\* no client of it and the gateway's client set does not hold it.
ClosedIsDetached ==
  \A c \in Conns :
    (conn[c].state = "closed") ~> (c \notin clients /\ OwnedClients(c) = {})

\* C17: the step that destroys a page (closePage, Target.closeTarget,
\* destroyBrowser) removes the sessions registered on it and closes its
\* debugger binding: the session manager holds no entry for the page after
\* the step.
NoSessionOfDestroyedPage ==
  [][\A p \in PageIds :
       (PageExists(p) /\ ~(\E b \in Browsers : p \in Range(browsers'[b].pages)))
         => (~sessions'[p].exists /\ ~dbg'[p].attached)]_vars

\* ---- properties of the message shapes

\* C19: a command for an attached flattened session is forwarded to the
\* debugger of the session's page whichever way it arrives: with a
\* top-level sessionId as it is inside Target.sendMessageToTarget, for any
\* method name.
ShapeAgnostic ==
  \A n \in DOMAIN cmds : cmds[n].bound => cmds[n].status \in {"inflight", "answered"}

\* the frames written to connection c for command n
FramesOf(c, n) == {i \in DOMAIN out[c] : out[c][i].cmd = n}

\* every message a session's callback wrote to a browser connection is a
\* Target.receivedMessageFromTarget carrying the sessionId of an attach on
\* the page it names
FlattenedWrapped ==
  \A c \in Conns : \A i \in DOMAIN out[c] :
    (conn[c].browserId \in Browsers /\ (out[c][i].cmd > 0 \/ IsFromTarget(out[c][i]))
       /\ out[c][i].t \notin {"gatewayResult", "sendMessageAck"})
      => /\ IsFromTarget(out[c][i])
         /\ \E t \in Issued : /\ tasks[t].sid = out[c][i].sid
                               /\ tasks[t].page = out[c][i].page

\* every message written to a page-scope connection is the inner message
\* itself, with no sessionId and no targetId around it
PageVerbatim ==
  \A c \in Conns : \A i \in DOMAIN out[c] :
    conn[c].pageId # NoPage
      => /\ out[c][i].t \in {"result", "errorResult", "event"}
         /\ out[c][i].sid = NoSid
         /\ out[c][i].page = NoPage

\* C20: the messages of a flattened session reach its connection wrapped in
\* Target.receivedMessageFromTarget with the session's sessionId and page,
\* and a command with a top-level sessionId on a session the connection
\* attached, once handled, has put exactly one message on that connection.
WrappedAndAnsweredOnce ==
  /\ FlattenedWrapped
  /\ \A n \in DOMAIN cmds :
       (cmds[n].shape = "top" /\ cmds[n].bound /\ cmds[n].status # "inflight"
          /\ OwnSid(cmds[n].conn, cmds[n].sid))
         => Cardinality(FramesOf(cmds[n].conn, n)) = 1

\* while the sessionIds are distinct the top-level command has its one message
WrappedAndAnsweredOnceIfDistinct == DistinctIds => WrappedAndAnsweredOnce

\* ---- properties of the page-scope connections

\* C18: the messages of a page-scope connection reach handleClientMessage in
\* the order they arrived in (the client numbers them 1, 2, ...), a message
\* buffered before the session was ready ahead of every later one.
ForwardedInOrder ==
  \A m \in DOMAIN cmds, n \in DOMAIN cmds :
    (m < n /\ cmds[m].shape = "page" /\ cmds[n].shape = "page"
       /\ cmds[m].conn = cmds[n].conn)
      => cmds[m].id < cmds[n].id

\* ---- properties of isolation between connections

\* C21: a Target.detachFromTarget that names a sessionId the sending
\* connection was never given leaves the session manager as it was: no
\* client of another connection is removed and no debugger is released.
ForeignDetachHarmless ==
  [][\A c \in Conns : \A sid \in KnownSids :
       (HandleDetachFromTarget(c, sid) /\ ~OwnSid(c, sid))
         => (sessions' = sessions /\ dbg' = dbg)]_vars

\* ---- properties of the error responses

\* C22: a command of a connection's own session that the debugger rejected
\* has exactly one error response on that connection and nothing on any
\* other connection, and the session still holds its clients.
RejectedAnsweredOnce ==
  \A n \in DOMAIN cmds :
    (cmds[n].status = "answered" /\ ~cmds[n].ok /\ OwnSid(cmds[n].conn, cmds[n].sid))
      => /\ Cardinality({i \in FramesOf(cmds[n].conn, n) :
                           out[cmds[n].conn][i].t = "receivedError"}) = 1
         /\ \A c \in Conns \ {cmds[n].conn} : FramesOf(c, n) = {}
         /\ ClientFound(sessions, cmds[n].page, cmds[n].sid)

\* while the sessionIds are distinct the error stays with the sender
RejectedAnsweredOnceIfDistinct == DistinctIds => RejectedAnsweredOnce

\* the Target.attachToTarget requests of connection c that ended with result r
AttachesEnded(c, r) ==
  {t \in DOMAIN tasks : /\ tasks[t].kind = "attach" /\ tasks[t].conn = c
                        /\ tasks[t].pc = "done" /\ tasks[t].result = r}

\* no Target.attachedToTarget was written for an attach whose attachClient
\* threw (an event with its sessionId belongs to another, successful attach)
FailedAttachNoEvent ==
  \A c \in Conns : \A t \in AttachesEnded(c, "failed") :
    AttachedToTarget(tasks[t].sid, tasks[t].page) \in Range(out[c])
      => \E u \in AttachesEnded(c, "ok") : tasks[u].sid = tasks[t].sid

\* C23: a Target.attachToTarget whose session attach threw is answered with
\* an error response (every request that failed or named no page has its
\* own) and has no Target.attachedToTarget event.
FailedAttachAnswered ==
  \A c \in Conns :
    AttachesEnded(c, "failed") # {}
      => /\ Count(out[c], LAMBDA f : f.t = "error")
              = Cardinality(AttachesEnded(c, "failed") \cup AttachesEnded(c, "notfound"))
         /\ \A t \in AttachesEnded(c, "failed") :
              AttachedToTarget(tasks[t].sid, tasks[t].page) \in Range(out[c])
                => \E u \in AttachesEnded(c, "ok") : tasks[u].sid = tasks[t].sid

\* C24: Target.attachToTarget, Target.closeTarget and Target.getTargetInfo
\* with a targetId that is no page of any browser write the one response
\* {code: -32000, message: "Target not found: <id>"} to the sender and leave
\* the fleet, the store mutations, the connections and the session manager
\* as they were.
TargetNotFoundIsInert ==
  [][\A c \in Conns : \A p \in PageIds :
       (/\ ~PageExists(p)
        /\ \/ \E flatten \in BOOLEAN : HandleAttachToTarget(c, p, flatten)
           \/ HandleCloseTarget(c, p)
           \/ HandleGetTargetInfo(c, p))
         => /\ out' = [out EXCEPT ![c] = Append(@, Frame("error", NoSid, p, -32000, 0))]
            /\ UNCHANGED <<browsers, mutations, conn, sessions, dbg, clients, events>>]_vars

\* a connection has been answered "Target not found" three times for the
\* closed page 1: once by an attach and twice by closeTarget or getTargetInfo
TargetNotFoundIsInertWitness ==
  \E c \in Conns :
    /\ ~PageExists(1)
    /\ Cardinality(AttachesEnded(c, "notfound")) = 1
    /\ Count(out[c], LAMBDA f : f = Frame("error", NoSid, 1, -32000, 0)) = 3

\* ---- properties of target discovery

\* the pages named by the Target.targetCreated events in a sequence of frames
CreatedIn(frames) == {f.page : f \in {g \in Range(frames) : g.t = "targetCreated"}}

\* C25: the Target.targetCreated events that Target.setDiscoverTargets
\* {discover: true} replays name exactly the targetIds that Target.getTargets
\* returns right after it (in the state the call leaves), one for each page of
\* the connection's browser.
ReplayEqualsGetTargets ==
  [][\A c \in Conns :
       HandleSetDiscoverTargets(c, TRUE)
         => /\ NewFrames(c) = ExistingTargets(browsers[conn[c].browserId].pages)
            /\ GetTargetsResult(c)'
                 = Frame("targetInfos", NoSid, NoPage,
                         PageListCode([i \in DOMAIN NewFrames(c) |-> NewFrames(c)[i].page]), 0)
            /\ CreatedIn(NewFrames(c)) = Range(browsers[conn[c].browserId].pages)
            /\ Len(NewFrames(c)) = Cardinality(CreatedIn(NewFrames(c)))]_vars

\* a connection that saw no page being created turned discovery on while
\* its browser held two pages, was replayed both, and was then answered
\* Target.getTargets with the same two
ReplayEqualsGetTargetsWitness ==
  \E c \in Conns :
    LET pages == browsers[conn[c].browserId].pages
    IN /\ conn[c].state = "open" /\ conn[c].discoverTargets /\ Len(pages) = 2
       /\ \A i \in DOMAIN mutations : c \notin mutations[i].seen
       /\ out[c] = ExistingTargets(pages)
                     \o <<Frame("targetInfos", NoSid, NoPage, PageListCode(pages), 0)>>

\* ---- properties of Target.setAutoAttach

\* C26: when the Target.setAutoAttach requests of a connection have been
\* processed, each page that was in the browser and not attached by the
\* connection when a request with autoAttach: true arrived has exactly one
\* Target.attachedToTarget on the connection.
AutoAttachedEachOnce ==
  \A t \in DOMAIN tasks :
    (/\ tasks[t].kind = "setAuto"
     /\ \A u \in DOMAIN tasks :
          (tasks[u].kind = "setAuto" /\ tasks[u].conn = tasks[t].conn) => tasks[u].pc = "done")
      => \A p \in tasks[t].todo :
           Count(out[tasks[t].conn],
                 LAMBDA f : f.t = "attachedToTarget" /\ f.page = p) = 1

\* ---- properties of GET /json/list

\* C27: from any state of the fleet, creating a page (activated or not,
\* after any page) and closing that page again leaves GET /json/list with
\* the same set of entries.
ListRoundTrip ==
  \A b \in Browsers, activate \in BOOLEAN, after \in 0..MaxPages :
    (browsers[b].exists /\ nextPage <= MaxPages)
      => ListPayload(BrowserRemovePage(
                       BrowserCreatePage(browsers, b, nextPage, activate, after),
                       b, nextPage))
           = ListPayload(browsers)

\* the same round trip with a page that is not activated
ListRoundTripInactive ==
  \A b \in Browsers, after \in 0..MaxPages :
    (browsers[b].exists /\ nextPage <= MaxPages)
      => ListPayload(BrowserRemovePage(
                       BrowserCreatePage(browsers, b, nextPage, FALSE, after),
                       b, nextPage))
           = ListPayload(browsers)

\* ---- properties of the WebSocket upgrade

\* /devtools/browser, /devtools/browser/{id} and /devtools/page/{id}
AcceptedPath(path) ==
  /\ path.root = "devtools"
  /\ \/ path.type = "browser"
     \/ path.type = "page" /\ path.id # NoId

\* C28: an upgrade on a path other than /devtools/browser,
\* /devtools/browser/{id} and /devtools/page/{id} has its socket destroyed
\* and never becomes a connection of the gateway; one on /devtools/browser
\* while a browser lives opens a connection scoped to the first browser.
UpgradeOnlyTargets ==
  [][\A c \in Conns : \A path \in Paths :
       UpgradeRequest(c, path)
         => IF AcceptedPath(path)
            THEN (path.type = "browser" /\ path.id = NoId /\ FirstBrowser # NoId)
                   => (conn'[c].state = "open" /\ BrowserSeg(conn'[c].browserId) = FirstBrowser)
            ELSE conn'[c].state = "rejected" /\ c \notin clients']_vars

\* a path that does not start with /devtools/ is rejected, and the default
\* browser path is scoped to the first browser
UpgradeOutsideDevtoolsRejected ==
  [][\A c \in Conns : \A path \in Paths :
       UpgradeRequest(c, path)
         => /\ path.root # "devtools" => (conn'[c].state = "rejected" /\ c \notin clients')
            /\ (path.type = "browser" /\ path.id = NoId /\ FirstBrowser # NoId)
                 => (conn'[c].state = "open" /\ BrowserSeg(conn'[c].browserId) = FirstBrowser)]_vars

\* ---- properties of the page order

SnapshotIsCopy ==
  \A b \in Browsers :
    browsers[b].held.taken => browsers[b].held.pageCount = browsers[b].held.was

\* ---- properties of page navigation

\* C31: no navigation of a page is started before the page's view has been
\* attached to the host window.
NavigatedAfterAttach == \A b \in Browsers : browsers[b].blind = {}

\* ---- properties of the readiness wait

\* the positions of a handler between the start of its readiness wait and
\* its call of attachClient
Waiting == {"timer", "load", "afterLoad", "settle", "ready"}

\* C32: every readiness wait of an attach ends, also when the page never
\* reports the end of its load, and the debugger attach is then attempted.
ReadinessWaitEnds ==
  \A t \in 1..MaxTasks :
    (t \in DOMAIN tasks /\ tasks[t].pc \in Waiting)
      ~> (t \in DOMAIN tasks /\ tasks[t].pc \notin Waiting)

\* the only handler has called attachClient for a page that is still loading:
\* its wait for the load event was ended by the timeout
ReadinessWaitEndsWitness ==
  /\ Len(tasks) = 1
  /\ tasks[1].pc = "attaching"
  /\ tasks[1].page \in loading

\* ---- properties of the isActive flags

\* C33: in every state at rest a page of the store has isActive set iff it
\* is the activePageId of its browser.
ActiveFlagMatches ==
  \A b \in Browsers :
    browsers[b].exists =>
      \A p \in Range(browsers[b].storePages) :
        p \in browsers[b].storeFlags <=> p = browsers[b].storeActive

\* ---- properties of a failed attachClient

\* C34: an attachClient whose debugger attach throws leaves the session
\* manager as it was before the call: the client is in no client set or
\* client map and no session entry was added for the page.
FailedAttachRollsBack ==
  [][\A t \in DOMAIN tasks :
       (tasks[t].pc = "ready" /\ t \in DOMAIN tasks' /\ tasks'[t].result = "failed")
         => sessions' = sessions]_vars

\* ---- properties of detached clients

\* C35: once a client is detached from a page its send callback is not
\* called again, also for the answer of a command that was in flight at the
\* debugger when it was detached.
NoSendAfterDetach ==
  [][\A n \in inflight, ok \in BOOLEAN :
       (CommandResult(n, ok) /\ ~ClientFound(sessions, cmds[n].page, cmds[n].sid))
         => out' = out]_vars

\* ---- properties of the gateway's client set

\* C36: the gateway's client set holds only connections that were accepted
\* with a valid scope and are open: a connection the gateway closed during
\* its setup is not in the set.
ClientsAreOpen == \A c \in clients : conn[c].state = "open"

\* ---- properties of a page-scope connection whose attach failed

\* the session attach of page-scope connection c has failed
PageAttachFailed(c) ==
  \E t \in DOMAIN tasks :
    tasks[t].kind = "page" /\ tasks[t].conn = c /\ tasks[t].result = "failed"

\* every message connection c has sent has been answered
AllAnswered(c) ==
  /\ conn[c].received > 0
  /\ \A id \in 1..conn[c].received :
       \E i \in DOMAIN out[c] : IsResponse(out[c][i]) /\ out[c][i].id = id

\* C37: a page-scope connection whose session attach failed does not stay
\* open with its session never ready: its socket is closed or its messages
\* are answered.
FailedPageAttachResolved ==
  \A c \in Conns :
    PageAttachFailed(c) ~> (conn[c].state = "closed" \/ AllAnswered(c))

\* ---- properties of Target.closeTarget

\* C38: when Target.closeTarget {targetId} is answered {success: true} the
\* page is in no browser of the fleet any more, also when it belonged to a
\* browser other than the connection's.
ClosedTargetIsGone ==
  [][\A c \in Conns, p \in PageIds :
       (HandleCloseTarget(c, p) /\ CloseResponse(p) \in Range(NewFrames(c)))
         => \A b \in Browsers : p \notin Range(browsers'[b].pages)]_vars

\* ---- properties of Target.createTarget

\* C39: when Target.createTarget {url} is answered {targetId} a navigation
\* of the new page to the url has been started.
CreatedTargetNavigated ==
  [][\A c \in Conns :
       (HandleCreateTarget(c) /\ CreateResponse(nextPage) \in Range(NewFrames(c)))
         => nextPage \in loading']_vars

\* ---- properties of attachedTargets

\* browser-scope connections that attach to a page while it may be loading
\* and detach sessions of their own
OwnAttachNext ==
  \/ \E c \in Conns : HandleAttachToTarget(c, 1, TRUE)
  \/ StartLoading(1)
  \/ LoadEvent(1)
  \/ Tick
  \/ \E t \in DOMAIN tasks : TimerFired(t)
  \/ \E t \in DOMAIN tasks : LoadTimeout(t)
  \/ RunMicrotask
  \/ \E c \in Conns, sid \in KnownSids : OwnSid(c, sid) /\ HandleDetachFromTarget(c, sid)

OwnAttachSpec == InitConnected /\ [][OwnAttachNext]_vars

\* connection c has a session on page p that the session manager holds on an
\* attached debugger and whose attach did not fail
OwnsAttachedSession(c, p) ==
  /\ sessions[p].attached
  /\ \E sid \in DOMAIN sessions[p].clientsMap :
       /\ sessions[p].clientsMap[sid].conn = c
       /\ \/ \E t \in DOMAIN tasks : tasks[t].sid = sid /\ tasks[t].result = "ok"
          \/ ~\E t \in DOMAIN tasks : tasks[t].sid = sid /\ tasks[t].result = "failed"

\* C40: while no attach of a browser-scope connection is in progress, a page
\* is in the connection's attachedTargets iff the connection owns at least
\* one successfully attached session on that page.
AttachedTargetsMatchSessions ==
  \A c \in clients :
    (IsBrowserClient(c) /\ \A t \in DOMAIN tasks : tasks[t].conn = c => tasks[t].pc = "done")
      => \A p \in PageIds : p \in conn[c].attachedTargets <=> OwnsAttachedSession(c, p)
====
